---------------------------- MODULE Spec2Model ----------------------------
(***************************************************************************)
(* Statement ingestion pipeline of the finance tracker: generic CSV        *)
(* parser, fingerprint deduplication, transaction classifier, the import   *)
(* services, the Import page / App ledger flow, and the UOB statement      *)
(* parsers.                                                                *)
(*                                                                         *)
(* Conventions.  A JavaScript string is a TLA+ string (a sequence of       *)
(* characters; Len, \o and SubSeq apply).  A JavaScript number that        *)
(* carries money is an integer number of cents (all sample inputs have at  *)
(* most two decimals); NaN is the model value NaN.  null and undefined     *)
(* are Null where a string is expected, Undefined where a number is, and   *)
(* a record whose first field is Null where an object is.  Array indices   *)
(* are 1-based.                                                            *)
(***************************************************************************)
EXTENDS Integers, Sequences, FiniteSets, Bags, TLC

VARIABLES
    dateImpl,         \* the JavaScript engine's Date parser for non-ISO strings
    existingHashes,   \* the Set<string> handed to the import services / Import page
    call,             \* ingestion service: the last call and its result
    prevCall,         \* ingestion service: the call before, when the last one repeats it
    admitted,         \* ingestion service: fingerprints of all returned transactions
    pending,          \* ingestion service: the importCSV calls waiting for file.text(),
                      \* whether the last call was made while another waited, and the
                      \* number of calls made
    state,            \* Import page: ImportState
    upload,           \* Import page: the rows read by the upload that is previewed
    confirmed,        \* Import page: the uploads confirmed so far, in order
    transactions,     \* App: the ledger
    imports,          \* App: the ImportRecord list
    snapshots,        \* App: the Snapshot list
    probe             \* pure functions: the input drawn and the value computed from it

vars == <<dateImpl, existingHashes, call, prevCall, admitted, pending, state, upload,
          confirmed, transactions, imports, snapshots, probe>>

\* the variables of the ingestion service, of the Import page and of the App
serviceVars == <<call, prevCall, admitted, pending>>
pageVars == <<state, upload, confirmed>>
appVars == <<transactions, imports, snapshots>>

\* null / undefined where a string is expected
Null == "null"
\* the number NaN (outside the range of every amount of the model)
NaN == -99999999
\* undefined where a number is expected
Undefined == NaN - 1

(***************************************************************************)
(* Strings                                                                 *)
(***************************************************************************)
\* the characters with codes 32..95 and 97..126
AsciiLow == " !\"#$%&'()*+,-./0123456789:;<=>?@ABCDEFGHIJKLMNOPQRSTUVWXYZ[\\]^_"
AsciiHigh == "abcdefghijklmnopqrstuvwxyz{|}~"

\* s[i - 1] of JavaScript
Char(s, i) == SubSeq(s, i, i)

Chars(s) == {Char(s, i) : i \in 1..Len(s)}

\* s.startsWith(p, at - 1): p occurs in s at the 1-based position at
OccursAt(s, p, at) ==
    /\ at >= 1
    /\ at + Len(p) - 1 <= Len(s)
    /\ SubSeq(s, at, at + Len(p) - 1) = p

\* String.prototype.includes
Includes(s, p) == \E at \in 1..(Len(s) + 1) : OccursAt(s, p, at)

\* String.prototype.indexOf, 1-based; 0 when p does not occur
IndexOf(s, p) ==
    IF Includes(s, p)
    THEN CHOOSE at \in 1..(Len(s) + 1) :
            OccursAt(s, p, at) /\ \A b \in 1..(at - 1) : ~OccursAt(s, p, b)
    ELSE 0

\* the code of every character of the model
CharCodes ==
    [c \in Chars(AsciiLow) |-> 31 + IndexOf(AsciiLow, c)]
        @@ [c \in Chars(AsciiHigh) |-> 96 + IndexOf(AsciiHigh, c)]
        @@ ("\t" :> 9) @@ ("\n" :> 10) @@ ("\r" :> 13)

\* String.prototype.charCodeAt for one character
CharCodeAt(c) == CharCodes[c]

Digits == Chars("0123456789")
UpperLetters == Chars("ABCDEFGHIJKLMNOPQRSTUVWXYZ")
LowerLetters == Chars("abcdefghijklmnopqrstuvwxyz")
\* \w of a regular expression
WordChars == Digits \cup UpperLetters \cup LowerLetters \cup {"_"}
\* \s of a regular expression, and what String.prototype.trim removes
WhiteSpace == {" ", "\t", "\n", "\r"}

AllIn(s, set) == \A i \in 1..Len(s) : Char(s, i) \in set
IsDigits(s) == AllIn(s, Digits)

\* the lower-case letter of every upper-case letter
LowerOf == [c \in UpperLetters |-> Char(AsciiHigh, IndexOf(AsciiLow, c) - 33)]

ToLowerChar(c) == IF c \in UpperLetters THEN LowerOf[c] ELSE c

\* the index after the longest run of characters of set that starts at i
RunEnd(s, i, set) ==
    IF \E j \in i..Len(s) : Char(s, j) \notin set
    THEN CHOOSE j \in i..Len(s) :
            Char(s, j) \notin set /\ \A k \in i..(j - 1) : Char(s, k) \in set
    ELSE IF i > Len(s) + 1 THEN i ELSE Len(s) + 1

\* the index where the longest run of characters of set that ends at i starts
RunStart(s, i, set) ==
    IF \E j \in 1..i : Char(s, j) \notin set
    THEN (CHOOSE j \in 1..i :
            Char(s, j) \notin set /\ \A k \in (j + 1)..i : Char(s, k) \in set) + 1
    ELSE 1

\* the k-th smallest element of a set of integers
Nth(S, k) == CHOOSE x \in S : Cardinality({y \in S : y <= x}) = k

\* the least and the greatest element of a non-empty set of integers
Min(S) == CHOOSE x \in S : \A y \in S : x <= y
Max(S) == CHOOSE x \in S : \A y \in S : y <= x

\* the pieces of s between the positions of cuts, in order
Pieces(s, cuts) ==
    LET n == Cardinality(cuts)
        first(k) == IF k = 1 THEN 1 ELSE Nth(cuts, k - 1) + 1
        last(k) == IF k = n + 1 THEN Len(s) ELSE Nth(cuts, k) - 1
    IN  [k \in 1..(n + 1) |-> SubSeq(s, first(k), last(k))]

RECURSIVE ToLowerCase(_)
\* String.prototype.toLowerCase, character by character (the string is halved so
\* that the evaluation stays shallow)
ToLowerCase(s) ==
    IF Len(s) <= 1 THEN ToLowerChar(s)
    ELSE ToLowerCase(SubSeq(s, 1, Len(s) \div 2))
            \o ToLowerCase(SubSeq(s, Len(s) \div 2 + 1, Len(s)))

TrimStart(s) == SubSeq(s, RunEnd(s, 1, WhiteSpace), Len(s))

TrimEnd(s) == SubSeq(s, 1, RunStart(s, Len(s), WhiteSpace) - 1)

\* String.prototype.trim
Trim(s) == TrimEnd(TrimStart(s))

RECURSIVE Remove(_, _)
\* s.replace(/[set]/g, '')
Remove(s, set) ==
    IF Len(s) <= 1 THEN (IF s \in set THEN "" ELSE s)
    ELSE Remove(SubSeq(s, 1, Len(s) \div 2), set)
            \o Remove(SubSeq(s, Len(s) \div 2 + 1, Len(s)), set)

\* String.prototype.split on a one-character separator
Split(s, sep) == Pieces(s, {i \in 1..Len(s) : Char(s, i) = sep})

RECURSIVE Join(_, _)
\* Array.prototype.join
Join(parts, sep) ==
    IF Len(parts) = 0 THEN ""
    ELSE IF Len(parts) = 1 THEN parts[1]
    ELSE Join(SubSeq(parts, 1, Len(parts) \div 2), sep) \o sep
            \o Join(SubSeq(parts, Len(parts) \div 2 + 1, Len(parts)), sep)

\* String.prototype.split(/\s+/) of a trimmed string: its maximal runs of
\* characters that are no white space
Words(s) ==
    LET starts == {i \in 1..Len(s) :
                      /\ Char(s, i) \notin WhiteSpace
                      /\ (i = 1 \/ Char(s, i - 1) \in WhiteSpace)}
        stop(i) == IF \E j \in i..Len(s) : Char(s, j) \in WhiteSpace
                   THEN CHOOSE j \in i..Len(s) :
                           /\ Char(s, j) \in WhiteSpace
                           /\ \A k \in i..(j - 1) : Char(s, k) \notin WhiteSpace
                   ELSE Len(s) + 1
    IN  IF s = "" THEN <<"">>
        ELSE [k \in 1..Cardinality(starts) |->
                 SubSeq(s, Nth(starts, k), stop(Nth(starts, k)) - 1)]

RECURSIVE NatToString(_)
\* String(n) of a non-negative integer
NatToString(n) ==
    IF n < 10 THEN Char("0123456789", n + 1)
    ELSE NatToString(n \div 10) \o Char("0123456789", (n % 10) + 1)

RECURSIVE DigitsToNat(_)
\* the value of a string of decimal digits
DigitsToNat(s) ==
    IF s = "" THEN 0
    ELSE 10 * DigitsToNat(SubSeq(s, 1, Len(s) - 1)) + (CharCodeAt(Char(s, Len(s))) - 48)

\* String.prototype.padStart(2, "0")
PadStart2(s) == IF Len(s) >= 2 THEN s ELSE IF Len(s) = 1 THEN "0" \o s ELSE "00"

\* Math.abs
Abs(n) == IF n < 0 THEN -n ELSE n

\* Number.prototype.toFixed(2) of an amount held in cents
ToFixed2(cents) ==
    (IF cents < 0 THEN "-" ELSE "")
        \o NatToString(Abs(cents) \div 100) \o "."
        \o PadStart2(NatToString(Abs(cents) % 100))

(***************************************************************************)
(* Fingerprint: generateTransactionHash                                    *)
(* A 32-bit integer is the pair <<high 16 bits, low 16 bits>> of its       *)
(* two's-complement representation.                                        *)
(***************************************************************************)
\* hash = ((hash << 5) - hash) + char; hash = hash & hash
HashStep(h, code) ==
    LET lo == 31 * h[2] + code
        hi == 31 * h[1] + (lo \div 65536)
    IN  <<hi % 65536, lo % 65536>>

\* the values of a 32-bit integer, as pairs of 16-bit halves
Int32 == (0..65535) \X (0..65535)

\* for (i...) { hash = ((hash << 5) - hash) + char; hash = hash & hash } from the
\* value h over the characters of s, left to right: the steps over s are those
\* over its first half followed by those over its second half
RollingHash(h, s) ==
    LET Steps[a \in Int32, t \in STRING] ==
            IF t = "" THEN a
            ELSE IF Len(t) = 1 THEN HashStep(a, CharCodeAt(t))
            ELSE Steps[Steps[a, SubSeq(t, 1, Len(t) \div 2)],
                       SubSeq(t, Len(t) \div 2 + 1, Len(t))]
    IN  Steps[h, s]

\* Math.abs of a 32-bit integer, as an unsigned pair (2^31 for -2^31)
AbsInt32(h) ==
    IF h[1] < 32768 THEN h
    ELSE IF h[2] = 0 THEN <<65536 - h[1], 0>>
    ELSE <<65535 - h[1], 65536 - h[2]>>

RECURSIVE ToString36(_)
\* Number.prototype.toString(36) of a non-negative integer held as a pair
ToString36(p) ==
    LET t == (p[1] % 36) * 65536 + p[2]
        q == <<p[1] \div 36, t \div 36>>
        d == Char("0123456789abcdefghijklmnopqrstuvwxyz", (t % 36) + 1)
    IN  IF q = <<0, 0>> THEN d ELSE ToString36(q) \o d

\* a key that takes the description in lower case with its margins
NormalizeDescriptionUntrimmed(description) == ToLowerCase(description)

\* the description as it enters the key: description.toLowerCase().trim()
NormalizeDescription(description) == Trim(ToLowerCase(description))

\* the key `${date}|${description.toLowerCase().trim()}|${amount.toFixed(2)}`
HashKey(date, description, amount) ==
    date \o "|" \o NormalizeDescription(description) \o "|" \o ToFixed2(amount)

generateTransactionHash(date, description, amount) ==
    ToString36(AbsInt32(RollingHash(<<0, 0>>, HashKey(date, description, amount))))


(***************************************************************************)
(* Transaction classifier: classificationService.ts                        *)
(***************************************************************************)
INCOME_KEYWORDS ==
    <<"salary", "payroll", "wages", "bonus", "commission", "freelance", "consulting">>

INVESTMENT_KEYWORDS ==
    <<"interest", "dividend", "coupon", "distribution", "yield", "capital gain">>

\* Each regular expression /head/i or /head.*tail/i as [heads, tail]; heads holds
\* the alternatives of the head (pay(ment)? to), tail is "" when there is no .*
TRANSFER_PATTERNS ==
    << [heads |-> {"credit card"}, tail |-> ""],
       [heads |-> {"card payment"}, tail |-> ""],
       [heads |-> {"pay to", "payment to"}, tail |-> "card"],
       [heads |-> {"transfer to"}, tail |-> ""],
       [heads |-> {"transfer from"}, tail |-> ""],
       [heads |-> {"internal transfer"}, tail |-> ""],
       [heads |-> {"to"}, tail |-> "brokerage"],
       [heads |-> {"from"}, tail |-> "brokerage"] >>

LineTerminators == {"\n", "\r"}

\* pattern.test(description) for a case-insensitive pattern of TRANSFER_PATTERNS, on
\* the description in lower case (. matches every character but a line terminator)
PatternTest(pattern, lower) ==
    \E h \in pattern.heads : \E i \in 1..Len(lower) :
        /\ OccursAt(lower, h, i)
        /\ \/ pattern.tail = ""
           \/ \E j \in (i + Len(h))..Len(lower) :
                 /\ OccursAt(lower, pattern.tail, j)
                 /\ \A k \in (i + Len(h))..(j - 1) :
                       Char(lower, k) \notin LineTerminators

\* TRANSFER_PATTERNS.some(pattern => pattern.test(description))
MatchesTransfer(description) ==
    LET lower == ToLowerCase(description)
    IN  \E n \in 1..Len(TRANSFER_PATTERNS) : PatternTest(TRANSFER_PATTERNS[n], lower)

\* keywords.some(k => lowerDesc.includes(k))
HasKeyword(lowerDesc, keywords) ==
    \E n \in 1..Len(keywords) : Includes(lowerDesc, keywords[n])

\* Each /a|b|c/i of categoryPatterns as the set of its alternatives (ez-?link is
\* ezlink | ez-link), with its label
categoryPatterns ==
    << [alts |-> {"restaurant", "cafe", "coffee", "starbucks", "mcdonald", "grab food",
                  "foodpanda", "deliveroo"}, label |-> "Food & Dining"],
       [alts |-> {"supermarket", "fairprice", "cold storage", "sheng siong", "ntuc"},
        label |-> "Groceries"],
       [alts |-> {"grab", "gojek", "comfort", "taxi", "uber", "mrt", "bus", "ezlink",
                  "ez-link"}, label |-> "Transport"],
       [alts |-> {"petrol", "gas", "shell", "esso", "caltex", "parking"},
        label |-> "Transport"],
       [alts |-> {"amazon", "lazada", "shopee", "qoo10", "taobao"},
        label |-> "Online Shopping"],
       [alts |-> {"uniqlo", "h&m", "zara", "cotton on"}, label |-> "Clothing"],
       [alts |-> {"singtel", "starhub", "m1", "giga", "sim only"}, label |-> "Phone"],
       [alts |-> {"sp services", "electricity", "water", "gas", "utility"},
        label |-> "Utilities"],
       [alts |-> {"netflix", "spotify", "youtube", "disney", "hbo", "subscription"},
        label |-> "Subscriptions"],
       [alts |-> {"rent", "mortgage", "hdb", "condo", "property"}, label |-> "Housing"],
       [alts |-> {"insurance", "prudential", "aia", "great eastern", "ntuc income"},
        label |-> "Insurance"],
       [alts |-> {"clinic", "hospital", "pharmacy", "guardian", "watsons", "doctor",
                  "medical"}, label |-> "Healthcare"],
       [alts |-> {"gym", "fitness", "activsg", "anytime fitness"}, label |-> "Fitness"],
       [alts |-> {"salary", "payroll", "cpf", "bonus"}, label |-> "Salary"],
       [alts |-> {"interest", "dividend"}, label |-> "Investment Income"],
       [alts |-> {"refund", "cashback"}, label |-> "Refund"] >>

\* the label of the first pattern of categoryPatterns that matches; 'Other' for none
FirstCategory(description) ==
    LET lowerDesc == ToLowerCase(description)
        hit(n) == \E a \in categoryPatterns[n].alts : Includes(lowerDesc, a)
    IN  IF \E n \in 1..Len(categoryPatterns) : hit(n)
        THEN categoryPatterns[CHOOSE n \in 1..Len(categoryPatterns) :
                                  hit(n) /\ \A m \in 1..(n - 1) : ~hit(m)].label
        ELSE "Other"

\* what the classifier reads off a description: the three tests of
\* classifyTransaction and the label of suggestCategory
TextTests(description) ==
    [transfer |-> MatchesTransfer(description),
     income |-> HasKeyword(ToLowerCase(description), INCOME_KEYWORDS),
     investment |-> HasKeyword(ToLowerCase(description), INVESTMENT_KEYWORDS),
     category |-> FirstCategory(description)]

\* the descriptions of the files and statements that the state machines below import
\* again and again; TextTests of each is computed once and looked up afterwards
\* (every other description is tested on the spot, with the same result)
KnownDescriptions ==
    {"NETS Purchase", "nets purchase", "NETS PURCHASE", "Salary ACME", "Kopi", "Bus",
     "Bad row", "Funds Transfer", "Transfer to Savings", "Dividend SIA"}

TextTestsTable == [d \in KnownDescriptions |-> TextTests(d)]

TextTestsOf(description) ==
    IF description \in KnownDescriptions THEN TextTestsTable[description]
    ELSE TextTests(description)

\* a classifier that looks for the income keywords before the transfer patterns
classifyTransactionKeywordsFirst(description, amount, sourceAccountType) ==
    LET Order(tests) ==
            IF tests.income THEN "income"
            ELSE IF sourceAccountType = "bank" /\ tests.transfer THEN "transfer"
            ELSE IF tests.investment THEN "investment"
            ELSE IF amount # NaN /\ amount > 0 THEN "income"
            ELSE "expense"
    IN  Order(TextTestsOf(description))

\* a classifier that tests the transfer patterns whatever the source account type
classifyTransactionUnguarded(description, amount, sourceAccountType) ==
    LET Order(tests) ==
            IF tests.transfer THEN "transfer"
            ELSE IF tests.income THEN "income"
            ELSE IF tests.investment THEN "investment"
            ELSE IF amount # NaN /\ amount > 0 THEN "income"
            ELSE "expense"
    IN  Order(TextTestsOf(description))

classifyTransaction(description, amount, sourceAccountType) ==
    LET Order(tests) ==
            IF sourceAccountType = "bank" /\ tests.transfer THEN "transfer"
            ELSE IF tests.income THEN "income"
            ELSE IF tests.investment THEN "investment"
            ELSE IF amount # NaN /\ amount > 0 THEN "income"
            ELSE "expense"
    IN  Order(TextTestsOf(description))

suggestCategory(description) == TextTestsOf(description).category

\* a transaction that keeps the amount as it was read
SignedAmountAsRead(type, amount) == amount

\* amount: Math.abs(amount) * (type === 'expense' ? -1 : 1)
SignedAmount(type, amount) ==
    IF amount = NaN THEN NaN ELSE Abs(amount) * (IF type = "expense" THEN -1 ELSE 1)

processTransaction(id, date, description, amount, ownerId, accountId, sourceAccountType) ==
    LET Transaction(type) ==
            [id |-> id,
             date |-> date,
             ownerId |-> ownerId,
             accountId |-> accountId,
             type |-> type,
             category |-> suggestCategory(description),
             amount |-> SignedAmount(type, amount),
             description |-> description]
    IN  Transaction(classifyTransaction(description, amount, sourceAccountType))


(***************************************************************************)
(* Generic CSV parser: csvParser.ts                                        *)
(***************************************************************************)
\* parseCSVLine: split on commas outside double quotes, quotes dropped, fields trimmed
parseCSVLine(line) ==
    LET inQuotes(i) == Cardinality({j \in 1..(i - 1) : Char(line, j) = "\""}) % 2 = 1
        cuts == {i \in 1..Len(line) : Char(line, i) = "," /\ ~inQuotes(i)}
        fields == Pieces(line, cuts)
    IN  [k \in 1..Len(fields) |-> Trim(Remove(fields[k], {"\""}))]

\* findColumnIndex: the first header that includes one of the patterns; 0 for -1
findColumnIndex(headers, patterns) ==
    LET hit(i) == \E pat \in patterns : Includes(Trim(ToLowerCase(headers[i])), pat)
    IN  IF \E i \in 1..Len(headers) : hit(i)
        THEN CHOOSE i \in 1..Len(headers) : hit(i) /\ \A k \in 1..(i - 1) : ~hit(k)
        ELSE 0

detectColumns(headers) ==
    [date |-> findColumnIndex(headers,
                {"date", "transaction date", "posting date", "value date"}),
     description |-> findColumnIndex(headers,
                {"description", "particulars", "details", "transaction description",
                 "narrative"}),
     amount |-> findColumnIndex(headers,
                {"amount", "transaction amount", "debit", "credit", "withdrawal",
                 "deposit"}),
     balance |-> findColumnIndex(headers,
                {"balance", "running balance", "available balance"})]

\* the lower-case month table of monthNameToNumber
MonthNumbersLower ==
    [jan |-> "01", feb |-> "02", mar |-> "03", apr |-> "04", may |-> "05", jun |-> "06",
     jul |-> "07", aug |-> "08", sep |-> "09", oct |-> "10", nov |-> "11", dec |-> "12"]

monthNameToNumber(name) ==
    LET key == ToLowerCase(SubSeq(name, 1, IF Len(name) < 3 THEN Len(name) ELSE 3))
    IN  IF key \in DOMAIN MonthNumbersLower THEN MonthNumbersLower[key] ELSE Null

\* cleaned.match(/^(\d{1,2})[\/\-](\d{1,2})[\/\-](\d{4})$/): <<>> when there is no
\* match, else <<day, month, year>>
MatchDMY(cleaned) ==
    LET fits(a, b) ==
            /\ Len(cleaned) = a + b + 6
            /\ IsDigits(SubSeq(cleaned, 1, a))
            /\ Char(cleaned, a + 1) \in {"/", "-"}
            /\ IsDigits(SubSeq(cleaned, a + 2, a + b + 1))
            /\ Char(cleaned, a + b + 2) \in {"/", "-"}
            /\ IsDigits(SubSeq(cleaned, a + b + 3, a + b + 6))
        pairs == {ab \in (1..2) \X (1..2) : fits(ab[1], ab[2])}
    IN  IF pairs = {} THEN <<>>
        ELSE LET ab == CHOOSE x \in pairs : TRUE
             IN  <<SubSeq(cleaned, 1, ab[1]),
                   SubSeq(cleaned, ab[1] + 2, ab[1] + ab[2] + 1),
                   SubSeq(cleaned, ab[1] + ab[2] + 3, ab[1] + ab[2] + 6)>>

\* /^(\d{4})-(\d{2})-(\d{2})$/.test(cleaned)
MatchISO(cleaned) ==
    /\ Len(cleaned) = 10
    /\ IsDigits(SubSeq(cleaned, 1, 4))
    /\ Char(cleaned, 5) = "-"
    /\ IsDigits(SubSeq(cleaned, 6, 7))
    /\ Char(cleaned, 8) = "-"
    /\ IsDigits(SubSeq(cleaned, 9, 10))

\* cleaned.match(/^(\d{1,2})\s+(\w{3})\s+(\d{4})$/): <<>> or <<day, monthName, year>>
MatchDMonY(cleaned) ==
    LET w == Words(cleaned)
    IN  IF /\ cleaned # ""
           /\ Char(cleaned, 1) \notin WhiteSpace
           /\ Char(cleaned, Len(cleaned)) \notin WhiteSpace
           /\ Len(w) = 3
           /\ Len(w[1]) \in 1..2 /\ IsDigits(w[1])
           /\ Len(w[2]) = 3 /\ AllIn(w[2], WordChars)
           /\ Len(w[3]) = 4 /\ IsDigits(w[3])
        THEN w ELSE <<>>

DateImpls == {"rejects", "accepts"}

\* new Date(cleaned) followed by toISOString().split('T')[0], for a string that is
\* none of the three formats: what the engine makes of it is implementation-defined.
\* An engine that rejects it gives an invalid date (Null); one that accepts it gives
\* some valid date, printed by toISOString as YYYY-MM-DD.
NativeDate(impl, cleaned) ==
    IF cleaned = "" \/ impl = "rejects" THEN Null ELSE "2001-01-01"

parseDate(dateStr, impl) ==
    IF dateStr = Null \/ dateStr = "" THEN Null
    ELSE LET cleaned == Remove(Trim(dateStr), {"'", "\""})
             dmy == MatchDMY(cleaned)
             dmony == MatchDMonY(cleaned)
         IN  IF dmy # <<>>
             THEN dmy[3] \o "-" \o PadStart2(dmy[2]) \o "-" \o PadStart2(dmy[1])
             ELSE IF MatchISO(cleaned) THEN cleaned
             ELSE IF dmony # <<>> /\ monthNameToNumber(ToLowerCase(dmony[2])) # Null
                  THEN dmony[3] \o "-" \o monthNameToNumber(ToLowerCase(dmony[2]))
                           \o "-" \o PadStart2(dmony[1])
                  ELSE NativeDate(impl, cleaned)

DigitPrefix(s) == SubSeq(s, 1, RunEnd(s, 1, Digits) - 1)

\* parseFloat of a string without leading white space or exponent, in cents
\* (decimals after the second are dropped)
ParseFloat(s) ==
    LET signed == s # "" /\ Char(s, 1) \in {"-", "+"}
        body == IF signed THEN Tail(s) ELSE s
        int == DigitPrefix(body)
        rest == SubSeq(body, Len(int) + 1, Len(body))
        frac == IF rest # "" /\ Char(rest, 1) = "." THEN DigitPrefix(Tail(rest)) ELSE ""
        frac2 == SubSeq(frac \o "00", 1, 2)
        cents == 100 * DigitsToNat(int) + DigitsToNat(frac2)
    IN  IF int = "" /\ frac = "" THEN NaN
        ELSE IF signed /\ Char(s, 1) = "-" THEN -cents ELSE cents

\* the [^0-9.,\-()] of parseAmount, restricted to the characters of the model
AmountChars == Digits \cup {".", ",", "-", "(", ")"}

parseAmount(amountStr) ==
    IF amountStr = Null \/ amountStr = "" THEN NaN
    ELSE LET kept == Remove(amountStr,
                        (Chars(AsciiLow) \cup Chars(AsciiHigh) \cup WhiteSpace)
                            \ AmountChars)
             cleaned == Remove(kept, {","})
             negated == IF /\ cleaned # ""
                           /\ Char(cleaned, 1) = "("
                           /\ Char(cleaned, Len(cleaned)) = ")"
                        THEN "-" \o SubSeq(cleaned, 2, Len(cleaned) - 1)
                        ELSE cleaned
         IN  ParseFloat(negated)

\* columns[index]: undefined off the end of the array and for index -1
Column(columns, index) ==
    IF index \in 1..Len(columns) THEN columns[index] ELSE Null

\* a loop body that drops every line without a word
parseCSVRowSilent(rawLine, i, columnMap, impl) == [kind |-> "skip"]

\* the body of the for loop of parseCSV for the line lines[i - 1] (i is 1-based
\* here, so the message carries i where the code says i + 1 for its 0-based i):
\* "skip" for a blank line, else [row] or [error]
parseCSVRow(rawLine, i, columnMap, impl) ==
    LET Result(date, description, amount, balance) ==
            IF date # Null /\ date # "" /\ description # "" /\ amount # NaN
            THEN [kind |-> "row",
                  row |-> [date |-> date, description |-> description,
                           amount |-> amount, balance |-> balance]]
            ELSE [kind |-> "error",
                  error |-> "Row " \o NatToString(i) \o ": Could not parse data"]
        Cells(columns) ==
            Result(parseDate(Column(columns, columnMap.date), impl),
                   IF Column(columns, columnMap.description) = Null THEN ""
                   ELSE Trim(Column(columns, columnMap.description)),
                   parseAmount(Column(columns, columnMap.amount)),
                   IF columnMap.balance # 0
                   THEN parseAmount(Column(columns, columnMap.balance))
                   ELSE Undefined)
    IN  IF Trim(rawLine) = "" THEN [kind |-> "skip"]
        ELSE Cells(parseCSVLine(Trim(rawLine)))

\* the entries of results (a function on a set of line numbers) of one kind, in the
\* order of the lines: what the loop pushed to rows, or to errors
Pushed(results, kind) ==
    LET at == {i \in DOMAIN results : results[i].kind = kind}
    IN  [k \in 1..Cardinality(at) |-> results[Nth(at, k)][kind]]

parseCSV(content, impl) ==
    LET Collect(results) ==
            [rows |-> Pushed(results, "row"), errors |-> Pushed(results, "error")]
        Rows(lines, columnMap) ==
            IF columnMap.date = 0 \/ columnMap.description = 0 \/ columnMap.amount = 0
            THEN [rows |-> <<>>,
                  errors |-> <<"Could not detect required columns (date, description, amount)">>]
            ELSE Collect([i \in 2..Len(lines) |->
                             parseCSVRow(lines[i], i, columnMap, impl)])
        Lines(lines) ==
            IF Len(lines) < 2
            THEN [rows |-> <<>>, errors |-> <<"CSV file is empty or has no data rows">>]
            ELSE Rows(lines, detectColumns(parseCSVLine(ToLowerCase(lines[1]))))
    IN  Lines(Split(Trim(content), "\n"))


(***************************************************************************)
(* Regular-expression pieces shared by the statement parsers               *)
(***************************************************************************)
\* \d{n} at position i
DigitsAt(s, i, n) == i + n - 1 <= Len(s) /\ IsDigits(SubSeq(s, i, i + n - 1))

\* /\d{2}\s+\w{3}/ at position i: 0 when it does not match there, else the index
\* after the match
DayMonEnd(s, i) ==
    LET k == RunEnd(s, i + 2, WhiteSpace)
    IN  IF /\ DigitsAt(s, i, 2)
           /\ k > i + 2
           /\ k + 2 <= Len(s)
           /\ AllIn(SubSeq(s, k, k + 2), WordChars)
        THEN k + 3 ELSE 0

\* /\d{2}\s+\w{3}\s+\d{4}/ at position i: 0, or the index after the match
DayMonYearEnd(s, i) ==
    LET e == DayMonEnd(s, i)
        k == RunEnd(s, e, WhiteSpace)
    IN  IF e # 0 /\ k > e /\ DigitsAt(s, k, 4) THEN k + 4 ELSE 0

NumberChars == Digits \cup {","}

\* /^[\d,]+\.\d{2}$/.test(w)
IsNumberToken(w) ==
    /\ Len(w) >= 4
    /\ IsDigits(SubSeq(w, Len(w) - 1, Len(w)))
    /\ Char(w, Len(w) - 2) = "."
    /\ AllIn(SubSeq(w, 1, Len(w) - 3), NumberChars)

\* s.match(/([\d,]+\.\d{2})\s*$/): the index where the match starts, 0 for no match
TrailingNumberIndex(s) ==
    LET t == TrimEnd(s)
        n == Len(t)
    IN  IF /\ n >= 4
           /\ IsDigits(SubSeq(t, n - 1, n))
           /\ Char(t, n - 2) = "."
           /\ Char(t, n - 3) \in NumberChars
        THEN RunStart(t, n - 3, NumberChars) ELSE 0

\* the text matched by /([\d,]+\.\d{2})\s*$/ in s
TrailingNumber(s) == SubSeq(TrimEnd(s), TrailingNumberIndex(s), Len(TrimEnd(s)))

\* parseFloat(str.replace(/,/g, ''))
ParseNumber(str) == ParseFloat(Remove(str, {","}))

\* the month table of the bank-statement parsers (parseUOBDate, formatDate)
MonthNumbers ==
    [Jan |-> "01", Feb |-> "02", Mar |-> "03", Apr |-> "04", May |-> "05", Jun |-> "06",
     Jul |-> "07", Aug |-> "08", Sep |-> "09", Oct |-> "10", Nov |-> "11", Dec |-> "12"]

\* `${x}` of a table lookup that may be undefined
MonthOf(table, key) == IF key \in DOMAIN table THEN table[key] ELSE "undefined"

\* parts[k - 1] of dateStr.trim().split(/\s+/), printed in a template
Part(parts, k) == IF k <= Len(parts) THEN parts[k] ELSE "undefined"

\* parseUOBDate of the bank-statement parsers: "01 Dec 2025" -> "2025-12-01"
parseUOBDate(dateStr) ==
    LET parts == Words(Trim(dateStr))
    IN  Part(parts, 3) \o "-" \o MonthOf(MonthNumbers, Part(parts, 2))
            \o "-" \o PadStart2(parts[1])

\* formatDate / parseStatementDate of the bank-statement parsers: "01 Dec" with
\* the year printed in the template
formatDate(dateStr, year) ==
    LET parts == Words(Trim(dateStr))
    IN  year \o "-" \o MonthOf(MonthNumbers, Part(parts, 2)) \o "-" \o PadStart2(parts[1])

\* a canonical date: YYYY-MM-DD with a month in 01..12 and a day in 01..31
IsCanonicalDate(d) ==
    /\ MatchISO(d)
    /\ DigitsToNat(SubSeq(d, 6, 7)) \in 1..12
    /\ DigitsToNat(SubSeq(d, 9, 10)) \in 1..31

\* String(new Date(periodEnd).getFullYear()): the year of a valid date, NaN of an
\* invalid one (time zones east of Greenwich, where the local year of the UTC
\* midnight is the UTC year; days 29..31 are not used with short months)
FullYear(date) == IF IsCanonicalDate(date) THEN SubSeq(date, 1, 4) ELSE "NaN"

\* text.match(/Period:\s*(\d{2}\s+\w{3}\s+\d{4})\s+to\s+(\d{2}\s+\w{3}\s+\d{4})/):
\* <<>> for no match, else the two groups
PeriodMatch(text) ==
    LET Groups(a, b, c, d, e) ==
            IF b # 0 /\ c > b /\ OccursAt(text, "to", c) /\ d > c + 2 /\ e # 0
            THEN <<SubSeq(text, a, b - 1), SubSeq(text, d, e - 1)>> ELSE <<>>
        SecondDate(a, b, c, d) == Groups(a, b, c, d, DayMonYearEnd(text, d))
        AfterTo(a, b, c) == SecondDate(a, b, c, RunEnd(text, c + 2, WhiteSpace))
        AfterFirst(a, b) == AfterTo(a, b, RunEnd(text, b, WhiteSpace))
        FirstDate(a) == AfterFirst(a, DayMonYearEnd(text, a))
        at(i) == IF OccursAt(text, "Period:", i)
                 THEN FirstDate(RunEnd(text, i + 7, WhiteSpace)) ELSE <<>>
        Leftmost(hits) == IF hits = {} THEN <<>> ELSE at(Min(hits))
    IN  Leftmost({i \in 1..Len(text) : at(i) # <<>>})

\* text.match(/One Account\s+([\d-]+)/): the group, '' for no match
AccountNumber(text) ==
    LET Group(i, a, b) ==
            IF a > i + 11 /\ b > a THEN SubSeq(text, a, b - 1) ELSE ""
        Number(i, a) == Group(i, a, RunEnd(text, a, Digits \cup {"-"}))
        at(i) == IF OccursAt(text, "One Account", i)
                 THEN Number(i, RunEnd(text, i + 11, WhiteSpace)) ELSE ""
        Leftmost(hits) == IF hits = {} THEN "" ELSE at(Min(hits))
    IN  Leftmost({i \in 1..Len(text) : at(i) # ""})

\* String.prototype.substring with 1-based indices of indexOf: from the character
\* at start up to the one before end, the two swapped when start > end
Substring(text, start, end) ==
    IF start <= end THEN SubSeq(text, start, end - 1) ELSE SubSeq(text, end, start - 1)


(***************************************************************************)
(* UOB One statement parser, text form: parsers/uobOneParser.ts            *)
(***************************************************************************)
\* the literal entries of footerPatterns (the three Chinese ones are left out: the
\* texts of the model are ASCII, so they and the non-ASCII ratio never apply)
OneFooterLiterals ==
    {"please note that you are bound", "united overseas bank", "uob plaza",
     "co. reg. no", "gst reg. no", "www.uob.com", "check the entries",
     "notify us in writing", "shall be deemed valid", "conclusively binding",
     "raffles place", "claim against the bank", "80 raffles", "singapore 048624",
     "omissions or unauthorised", "errors, omissions", "fourteen (14) days",
     "entries above shall be", "in relation thereto", "duty under the rules",
     "governing the operation", "currency conversion", "withdrawals deposits balance",
     "date description", "fx+", "sgd/jpy", "sgd/usd", "sgd/eur", "sgd/gbp", "sgd/aud",
     "sgd/nzd", "sgd/hkd", "sgd/cny", "nzd nzd nzd", "jpy jpy jpy", "usd usd usd",
     "eur eur eur"}

\* /page \d+ of \d+/i.test(line), on the line in lower case
MatchesPageOf(lower) ==
    \E i \in 1..Len(lower) :
        LET a == RunEnd(lower, i + 5, Digits)
        IN  /\ OccursAt(lower, "page ", i)
            /\ a > i + 5
            /\ OccursAt(lower, " of ", a)
            /\ DigitsAt(lower, a + 4, 1)

\* /total \d/i.test(line), on the line in lower case
MatchesTotalDigit(lower) ==
    \E i \in 1..Len(lower) : OccursAt(lower, "total ", i) /\ DigitsAt(lower, i + 6, 1)

isFooterLineOne(line) ==
    LET lower == ToLowerCase(line)
    IN  \/ \E pat \in OneFooterLiterals : Includes(lower, pat)
        \/ MatchesPageOf(lower)
        \/ MatchesTotalDigit(lower)

\* line.match(/^(\d{2}\s+\w{3})\s+(.+)/) on a trimmed line: <<>> for no match, else
\* <<dateStr, restOfLine>>
DateLineMatch(line) ==
    LET e == DayMonEnd(line, 1)
        r == RunEnd(line, e, WhiteSpace)
    IN  IF e # 0 /\ r > e /\ r <= Len(line)
        THEN <<SubSeq(line, 1, e - 1), SubSeq(line, r, Len(line))>> ELSE <<>>

\* /^\d{2}\s+\w{3}\s+/.test(line)
StartsDated(line) ==
    LET e == DayMonEnd(line, 1)
    IN  e # 0 /\ RunEnd(line, e, WhiteSpace) > e

\* restOfLine.match(/([\d,]+\.\d{2})\s+([\d,]+\.\d{2})\s*$/) # null
TwoTrailingNumbers(rest) ==
    LET Before(p) ==
            /\ p > 1
            /\ Char(rest, p - 1) \in WhiteSpace
            /\ TrailingNumberIndex(SubSeq(rest, 1, p - 1)) # 0
    IN  Before(TrailingNumberIndex(rest))

\* the look-ahead of the transaction loop: from line j on, the continuation lines
\* collected and the index of the line where the scan stopped
RECURSIVE OneContinuation(_, _, _)
OneContinuation(lines, j, acc) ==
    IF j > Len(lines) THEN [stop |-> j, lines |-> acc]
    ELSE LET nextLine == Trim(lines[j])
         IN  IF \/ nextLine = ""
                \/ StartsDated(nextLine)
                \/ Includes(nextLine, "BALANCE B/F")
                \/ Includes(nextLine, "End of Transaction")
                \/ Includes(nextLine, "Account Transaction")
             THEN [stop |-> j, lines |-> acc]
             ELSE IF isFooterLineOne(nextLine) THEN OneContinuation(lines, j + 1, acc)
             ELSE OneContinuation(lines, j + 1, Append(acc, nextLine))

\* the balance the delta heuristic compares with
PrevBalance(txs, openingBalance) ==
    IF Len(txs) > 0 THEN txs[Len(txs)].balance ELSE openingBalance

\* the transaction, if any, that one dated line gives: <<>> or <<transaction>>
OneTransaction(dateStr, restOfLine, continuationLines, txs, openingBalance, currentYear) ==
    LET tail == IF continuationLines = <<>> THEN ""
                ELSE " | " \o Join(continuationLines, " | ")
        Push(description, amount, balance) ==
            <<[date |-> formatDate(dateStr, currentYear),
               description |-> description,
               amount |-> IF balance < PrevBalance(txs, openingBalance)
                          THEN -amount ELSE amount,
               balance |-> balance]>>
        \* numbers = parts.filter(...), as the positions numberAt of the numbers
        Numbers(parts, numberAt) ==
            IF Cardinality(numberAt) >= 2
            THEN Push(Trim(Join(SubSeq(parts, 1, Min(numberAt) - 1), " ") \o tail),
                      ParseNumber(parts[Max(numberAt \ {Max(numberAt)})]),
                      ParseNumber(parts[Max(numberAt)]))
            ELSE <<>>
        Parts(parts) == Numbers(parts, {k \in 1..Len(parts) : IsNumberToken(parts[k])})
        Previous(beforeLast, prevAt) ==
            IF prevAt # 0
            THEN Push(Trim(SubSeq(beforeLast, 1, prevAt - 1)) \o tail,
                      ParseNumber(TrailingNumber(beforeLast)),
                      ParseNumber(TrailingNumber(restOfLine)))
            ELSE <<>>
        BeforeLast(beforeLast) == Previous(beforeLast, TrailingNumberIndex(beforeLast))
        Single(single) ==
            IF single # 0 THEN BeforeLast(SubSeq(restOfLine, 1, single - 1)) ELSE <<>>
    IN  IF TwoTrailingNumbers(restOfLine) THEN Parts(Words(restOfLine))
        ELSE Single(TrailingNumberIndex(restOfLine))

\* the for loop over transactionLines
RECURSIVE OneLoop(_, _, _, _, _, _)
OneLoop(lines, i, txs, openingBalance, closingBalance, currentYear) ==
    LET Pushed1(cont, tx) ==
            OneLoop(lines, cont.stop, txs \o tx, openingBalance,
                    IF tx # <<>> THEN tx[1].balance ELSE closingBalance, currentYear)
        Dated(dateMatch, cont) ==
            Pushed1(cont, OneTransaction(dateMatch[1], dateMatch[2], cont.lines, txs,
                                         openingBalance, currentYear))
        Line(line, dateMatch) ==
            IF Includes(line, "BALANCE B/F")
            THEN OneLoop(lines, i + 1, txs,
                         IF TrailingNumberIndex(line) # 0 /\ openingBalance = 0
                         THEN ParseNumber(TrailingNumber(line)) ELSE openingBalance,
                         closingBalance, currentYear)
            ELSE IF dateMatch = <<>>
                 THEN OneLoop(lines, i + 1, txs, openingBalance, closingBalance,
                              currentYear)
                 ELSE Dated(dateMatch, OneContinuation(lines, i + 1, <<>>))
    IN  IF i > Len(lines)
        THEN [transactions |-> txs, openingBalance |-> openingBalance,
              closingBalance |-> closingBalance]
        ELSE Line(Trim(lines[i]), DateLineMatch(Trim(lines[i])))

\* text.match(/Balance\s+SGD\s*\n\s*([\d,]+\.\d{2})/): the group, '' for no match
BalanceSGDMatch(text) ==
    LET Group(a, b, c) ==
            IF /\ "\n" \in Chars(SubSeq(text, a + 3, b - 1))
               /\ c > b
               /\ Char(text, c) = "."
               /\ DigitsAt(text, c + 1, 2)
            THEN SubSeq(text, b, c + 2) ELSE ""
        Number(a, b) == Group(a, b, RunEnd(text, b, NumberChars))
        Currency(i, a) ==
            IF a > i + 7 /\ OccursAt(text, "SGD", a)
            THEN Number(a, RunEnd(text, a + 3, WhiteSpace)) ELSE ""
        at(i) == IF OccursAt(text, "Balance", i)
                 THEN Currency(i, RunEnd(text, i + 7, WhiteSpace)) ELSE ""
        Leftmost(hits) == IF hits = {} THEN "" ELSE at(Min(hits))
    IN  Leftmost({i \in 1..Len(text) : at(i) # ""})

\* a thrown Error, and a returned ParsedStatement
Thrown(message) == [ok |-> FALSE, error |-> message]
Returned(value) == [ok |-> TRUE, value |-> value]

parseUOBOneStatementText(text) ==
    LET Statement(periodMatch, loop, fallback) ==
            Returned(
              [openingBalance |-> loop.openingBalance,
               closingBalance |-> IF loop.closingBalance = 0 /\ fallback # ""
                                  THEN ParseNumber(fallback)
                                  ELSE loop.closingBalance,
               periodStart |-> parseUOBDate(periodMatch[1]),
               periodEnd |-> parseUOBDate(periodMatch[2]),
               currency |-> "SGD",
               accountNumber |-> AccountNumber(text),
               transactions |-> loop.transactions])
        Section(periodMatch, transactionStart, transactionEnd) ==
            IF transactionStart = 0 \/ transactionEnd = 0
            THEN Thrown("Could not find transaction section")
            ELSE Statement(periodMatch,
                           OneLoop(Split(Substring(text, transactionStart, transactionEnd),
                                         "\n"),
                                   1, <<>>, 0, 0, FullYear(parseUOBDate(periodMatch[2]))),
                           BalanceSGDMatch(text))
        TransactionEnd(endOfDetails, currencyConversionStart) ==
            IF /\ currencyConversionStart # 0
               /\ (endOfDetails = 0 \/ currencyConversionStart < endOfDetails)
            THEN currencyConversionStart ELSE endOfDetails
        Period(periodMatch) ==
            IF periodMatch = <<>> THEN Thrown("Could not find statement period")
            ELSE Section(periodMatch,
                         IndexOf(text, "Account Transaction Details"),
                         TransactionEnd(IndexOf(text, "End of Transaction Details"),
                                        IndexOf(text, "Currency Conversion")))
    IN  Period(PeriodMatch(text))


(***************************************************************************)
(* UOB credit card statement parser, text form: parseTextOnly of the       *)
(* credit-card parser                                                      *)
(***************************************************************************)
\* CARD_PATTERNS in lower case: the names of the six /^name$/i, and the prefix of
\* /^KrisFlyer UOB.*$/i
CARD_PATTERNS ==
    [exact |-> {"uob one card", "lady's card", "uob privi miles card",
                "uob visa signature card", "uob prvi miles card",
                "uob absolute cashback card"},
     prefix |-> {"krisflyer uob"}]

\* SKIP_PATTERNS in lower case: the texts of /^text$/i, the prefixes of /^text/i, and
\* the two ends of /^PAYMENT.*RECEIVED/i
SKIP_PATTERNS ==
    [exact |-> {"previous balance", "sub total"},
     prefix |-> {"paymt thru e-bank", "credit adjustment", "total balance for"},
     span |-> {<<"payment", "received">>}]

\* the trimmed text when a card pattern matches it, null otherwise
\* a detection that gives the header in lower case
detectCardHeaderLowered(text) ==
    LET Header(trimmed, lower) ==
            IF \/ lower \in CARD_PATTERNS.exact
               \/ \E p \in CARD_PATTERNS.prefix : OccursAt(lower, p, 1)
            THEN lower ELSE Null
    IN  Header(Trim(text), ToLowerCase(Trim(text)))

detectCardHeader(text) ==
    LET Header(trimmed, lower) ==
            IF \/ lower \in CARD_PATTERNS.exact
               \/ \E p \in CARD_PATTERNS.prefix :
                     /\ OccursAt(lower, p, 1)
                     /\ \A k \in (Len(p) + 1)..Len(lower) :
                           Char(lower, k) \notin LineTerminators
            THEN trimmed ELSE Null
    IN  Header(Trim(text), ToLowerCase(Trim(text)))

shouldSkipLine(text) ==
    LET Skip(trimmed, lower) ==
            \/ lower \in SKIP_PATTERNS.exact
            \/ \E p \in SKIP_PATTERNS.prefix : OccursAt(lower, p, 1)
            \/ \E ends \in SKIP_PATTERNS.span :
                  /\ OccursAt(lower, ends[1], 1)
                  /\ \E j \in (Len(ends[1]) + 1)..Len(lower) :
                        /\ OccursAt(lower, ends[2], j)
                        /\ \A k \in (Len(ends[1]) + 1)..(j - 1) :
                              Char(lower, k) \notin LineTerminators
            \/ Includes(trimmed, "United Overseas Bank")
            \/ Includes(trimmed, "Please note that you are bound")
            \/ (Includes(trimmed, "Page ") /\ Includes(trimmed, " of "))
    IN  Skip(Trim(text), ToLowerCase(Trim(text)))

\* line.match(/^(\d{2}\s+\w{3})\s+(\d{2}\s+\w{3})\s+(.+?)\s+([\d,]+\.\d{2})(?:\s+CR)?$/)
\* on a trimmed line: <<>> for no match, else the groups 2, 3 and 4.  The number ends
\* at the end of the line or before the white space in front of a final CR, and starts
\* after white space; the lazy group 3 runs from the first character after the white
\* space behind the second date to the white space in front of the number.  When the
\* number follows the second date directly, group 3 is one white-space character of a
\* run of at least three.
CardTransactionMatch(line) ==
    LET Groups(r1, e2, d0, s, n) ==
            IF \/ s = 0
               \/ s < d0
               \/ Char(line, s - 1) \notin WhiteSpace
               \/ (s = d0 /\ d0 - e2 < 3)
            THEN <<>>
            ELSE <<SubSeq(line, r1, e2 - 1),
                   IF s = d0 THEN Char(line, s - 2)
                   ELSE SubSeq(line, d0, RunStart(line, s - 1, WhiteSpace) - 1),
                   SubSeq(line, s, n)>>
        Number(r1, e2, d0, n) ==
            Groups(r1, e2, d0, TrailingNumberIndex(SubSeq(line, 1, n)), n)
        Description(r1, e2, d0) ==
            IF e2 = 0 \/ d0 = e2 THEN <<>>
            ELSE Number(r1, e2, d0,
                        IF /\ Len(line) >= 3
                           /\ OccursAt(line, "CR", Len(line) - 1)
                           /\ Char(line, Len(line) - 2) \in WhiteSpace
                        THEN RunStart(line, Len(line) - 2, WhiteSpace) - 1
                        ELSE Len(line))
        SecondDate(r1, e2) == Description(r1, e2, RunEnd(line, e2, WhiteSpace))
        FirstDate(e1, r1) ==
            IF e1 = 0 \/ r1 = e1 THEN <<>> ELSE SecondDate(r1, DayMonEnd(line, r1))
        First(e1) == FirstDate(e1, RunEnd(line, e1, WhiteSpace))
    IN  First(DayMonEnd(line, 1))

\* the month table of the credit-card parser: Title-case and upper-case names
CardMonthNumbers ==
    MonthNumbers @@
    [JAN |-> "01", FEB |-> "02", MAR |-> "03", APR |-> "04", MAY |-> "05", JUN |-> "06",
     JUL |-> "07", AUG |-> "08", SEP |-> "09", OCT |-> "10", NOV |-> "11", DEC |-> "12"]

\* parseStatementDate of the credit-card parser: months[parts[1]] || '01'
parseStatementDate(dateStr, year) ==
    LET Date(parts) ==
            year \o "-"
                \o (IF Part(parts, 2) \in DOMAIN CardMonthNumbers
                    THEN CardMonthNumbers[Part(parts, 2)] ELSE "01")
                \o "-" \o PadStart2(parts[1])
    IN  Date(Words(Trim(dateStr)))

\* the for loop of parseTextOnly over the lines of the text
RECURSIVE CardLoop(_, _, _, _, _)
CardLoop(lines, i, currentCardName, txs, currentYear) ==
    LET Transaction(txMatch, line) ==
            IF txMatch # <<>> /\ currentCardName # ""
            THEN <<[date |-> parseStatementDate(txMatch[1], currentYear),
                    description |-> Trim(txMatch[2]),
                    amount |-> IF OccursAt(line, " CR", Len(line) - 2)
                               THEN ParseNumber(txMatch[3])
                               ELSE -Abs(ParseNumber(txMatch[3])),
                    balance |-> 0,
                    tag |-> currentCardName]>>
            ELSE <<>>
        Line(line, cardMatch) ==
            IF line = ""
            THEN CardLoop(lines, i + 1, currentCardName, txs, currentYear)
            ELSE IF cardMatch # Null
                 THEN CardLoop(lines, i + 1, cardMatch, txs, currentYear)
                 ELSE IF shouldSkipLine(line)
                      THEN CardLoop(lines, i + 1, currentCardName, txs, currentYear)
                      ELSE CardLoop(lines, i + 1, currentCardName,
                                    txs \o Transaction(CardTransactionMatch(line), line),
                                    currentYear)
    IN  IF i > Len(lines) THEN txs
        ELSE Line(Trim(lines[i]), detectCardHeader(Trim(lines[i])))

\* a text-only parse that returns every amount without its sign
parseTextOnlyUnsigned(text, clockYear) ==
    LET Unsigned(txs) == [k \in DOMAIN txs |-> [txs[k] EXCEPT !.amount = Abs(@)]]
    IN  Returned([openingBalance |-> 0,
                  closingBalance |-> 0,
                  periodStart |-> "",
                  periodEnd |-> "",
                  currency |-> "SGD",
                  accountNumber |-> "",
                  transactions |->
                      Unsigned(CardLoop(Split(text, "\n"), 1, "", <<>>, clockYear))])

\* parseTextOnly never throws; clockYear is new Date().getFullYear()
parseUOBCreditCardStatementText(text, clockYear) ==
    Returned([openingBalance |-> 0,
              closingBalance |-> 0,
              periodStart |-> "",
              periodEnd |-> "",
              currency |-> "SGD",
              accountNumber |-> "",
              transactions |-> CardLoop(Split(text, "\n"), 1, "", <<>>, clockYear)])


(***************************************************************************)
(* Layout form of the parsers: the lines of positioned items that          *)
(* extractPDFLayout gives.  A line is the sequence of its items, each an   *)
(* [str, x]; x is a whole number of points.                                *)
(***************************************************************************)
\* line.text: pdfItems.map(pi => pi.str).join('  ')
LineText(items) == Join([k \in DOMAIN items |-> items[k].str], "  ")

\* line.items.filter(item => /^-?[\d,]+\.\d{2}$/.test(item.str.trim())), or the
\* filter without the sign: the positions of the items kept
NumberItems(items, signed) ==
    LET Matches(str) ==
            \/ IsNumberToken(str)
            \/ /\ signed
               /\ Len(str) > 1
               /\ Char(str, 1) = "-"
               /\ IsNumberToken(SubSeq(str, 2, Len(str)))
    IN  {k \in DOMAIN items : Matches(Trim(items[k].str))}

\* the scan for the header line: the x of the Withdrawal, Deposit and Balance items
\* of the first line whose text names both columns, and the default positions when
\* the withdrawal or the deposit x is 0.  The Lady's Savings parser looks for the
\* deposit and balance items by equality (exact), the UOB One parser by inclusion.
ColumnAnchors(lines, exact) ==
    LET XOf(items, hits) == IF hits = {} THEN 0 ELSE items[Min(hits)].x
        Header(items) ==
            [withdrawalX |->
                XOf(items, {k \in DOMAIN items : Includes(items[k].str, "Withdrawal")}),
             depositX |->
                XOf(items, {k \in DOMAIN items :
                               IF exact THEN items[k].str \in {"Deposits", "Deposit"}
                               ELSE Includes(items[k].str, "Deposit")}),
             balanceX |->
                XOf(items, {k \in DOMAIN items :
                               IF exact THEN items[k].str = "Balance"
                               ELSE Includes(items[k].str, "Balance")})]
        Defaulted(found) ==
            IF found.withdrawalX = 0 \/ found.depositX = 0
            THEN [withdrawalX |-> 344, depositX |-> 435, balanceX |-> 517]
            ELSE found
        Scan(headers) ==
            IF headers = {} THEN [withdrawalX |-> 344, depositX |-> 435, balanceX |-> 517]
            ELSE Defaulted(Header(lines[Min(headers)]))
        IsHeader(text) == Includes(text, "Withdrawal") /\ Includes(text, "Deposit")
    IN  Scan({k \in DOMAIN lines : IsHeader(LineText(lines[k]))})

\* description.replace(dateStr, ''): the first occurrence removed
ReplaceFirst(s, p) ==
    LET At(i) == IF i = 0 THEN s ELSE SubSeq(s, 1, i - 1) \o SubSeq(s, i + Len(p), Len(s))
    IN  At(IndexOf(s, p))

\* an amount that keeps the sign of the fragment whatever its column
LadyAmountUnsigned(columns) ==
    IF columns.withdrawal > 0 THEN columns.withdrawal
    ELSE IF columns.deposit > 0 THEN columns.deposit
    ELSE 0

\* the amount of a row of the Lady's Savings layout from its withdrawalAmount and
\* depositAmount: -withdrawalAmount, else depositAmount, else 0
LadyAmount(columns) ==
    IF columns.withdrawal > 0 THEN -columns.withdrawal
    ELSE IF columns.deposit > 0 THEN columns.deposit
    ELSE 0

\* parseWithLayout of the UOB Lady's Savings parser
parseUOBLadyLayout(lines, fullText) ==
    LET Text(i) == Trim(LineText(lines[i]))
        Value(item) == ParseNumber(Trim(item.str))
        \* footerPatterns without its Chinese entry; the texts are ASCII, so the
        \* non-ASCII ratio never applies
        isFooterLine(lowerLine) ==
            \E pat \in {"please note that you are bound", "united overseas bank",
                        "uob plaza", "co. reg. no", "gst reg. no", "www.uob.com", "page",
                        "check the entries", "notify us in writing",
                        "shall be deemed valid", "conclusively binding", "raffles place",
                        "claim against the bank", "80 raffles", "singapore 048624",
                        "omissions or unauthorised", "errors, omissions",
                        "fourteen (14) days", "entries above shall be",
                        "in relation thereto", "duty under the rules",
                        "foreign exchange", "deposit insurance"} :
                Includes(lowerLine, pat)
        \* the while loop that looks ahead for continuation lines
        RECURSIVE Fold(_, _)
        Fold(j, description) ==
            LET Next(nextText) ==
                    IF \/ DayMonEnd(nextText, 1) # 0
                       \/ Includes(nextText, "BALANCE B/F")
                       \/ Includes(nextText, "End of Transaction")
                       \/ Includes(nextText, "Total")
                       \/ isFooterLine(ToLowerCase(nextText))
                    THEN [stop |-> j, description |-> description]
                    ELSE IF Len(nextText) < 3 THEN Fold(j + 1, description)
                    ELSE IF TrailingNumberIndex(nextText) # 0
                         THEN [stop |-> j, description |-> description]
                    ELSE Fold(j + 1, description \o " | " \o nextText)
            IN  IF j > Len(lines) THEN [stop |-> j, description |-> description]
                ELSE Next(Text(j))
        \* the column a number item at x is matched to, maxX the greatest x of the
        \* number items of its line
        Kind(anchors, x, maxX) ==
            LET Nearest(distToWithdrawal, distToDeposit, distToBalance) ==
                    IF /\ distToBalance < 80
                       /\ distToBalance < distToWithdrawal
                       /\ distToBalance < distToDeposit
                    THEN "balance"
                    ELSE IF distToWithdrawal < 80 /\ distToWithdrawal < distToDeposit
                         THEN "withdrawal"
                    ELSE IF distToDeposit < 80 THEN "deposit"
                    ELSE IF x = maxX THEN "balance"
                    ELSE "none"
            IN  Nearest(Abs(x - anchors.withdrawalX), Abs(x - anchors.depositX),
                        Abs(x - anchors.balanceX))
        \* the value of the last item of a set, 0 when the set is empty
        Last(items, hits) == IF hits = {} THEN 0 ELSE Value(items[Max(hits)])
        \* withdrawalAmount, depositAmount and balance of a line
        Columns(items, kinds) ==
            [withdrawal |-> Last(items, {k \in DOMAIN kinds : kinds[k] = "withdrawal"}),
             deposit |-> Last(items, {k \in DOMAIN kinds : kinds[k] = "deposit"}),
             balance |-> Last(items, {k \in DOMAIN kinds : kinds[k] = "balance"})]
        Description(items, descItems, dateStr) ==
            Trim(ReplaceFirst(
                Join([n \in 1..Cardinality(descItems) |-> items[Nth(descItems, n)].str],
                     " "),
                dateStr))
        RECURSIVE Loop(_, _, _, _, _, _)
        Loop(i, txs, openingBalance, closingBalance, currentYear, anchors) ==
            LET Push(dateStr, amount, balance, fold) ==
                    Loop(fold.stop,
                         Append(txs, [date |-> formatDate(dateStr, currentYear),
                                      description |-> Trim(fold.description),
                                      amount |-> amount,
                                      balance |-> balance]),
                         openingBalance,
                         IF balance > 0 THEN balance ELSE closingBalance,
                         currentYear, anchors)
                Row(items, numberItems, dateStr, amount, balance, firstNumX) ==
                    IF amount = 0 /\ Cardinality(numberItems) = 1
                    THEN Loop(i + 1, txs, openingBalance, closingBalance, currentYear,
                              anchors)
                    ELSE Push(dateStr, amount, balance,
                              Fold(i + 1,
                                   Description(items,
                                               {k \in DOMAIN items :
                                                   /\ items[k].x >= 70
                                                   /\ items[k].x < firstNumX - 10
                                                   /\ Trim(items[k].str) # ""},
                                               dateStr)))
                Dated(items, numberItems, dateStr, columns) ==
                    Row(items, numberItems, dateStr, LadyAmount(columns), columns.balance,
                        Min({items[n].x : n \in numberItems}))
                Numbers(items, numberItems, dateStr, maxX) ==
                    Dated(items, numberItems, dateStr,
                          Columns(items,
                                  [k \in numberItems |-> Kind(anchors, items[k].x, maxX)]))
                Line(items, text, numberItems) ==
                    IF text = ""
                    THEN Loop(i + 1, txs, openingBalance, closingBalance, currentYear,
                              anchors)
                    ELSE IF Includes(text, "BALANCE B/F")
                    THEN Loop(i + 1, txs,
                              IF NumberItems(items, FALSE) # {} /\ openingBalance = 0
                              THEN Last(items, NumberItems(items, FALSE))
                              ELSE openingBalance,
                              closingBalance, currentYear, anchors)
                    ELSE IF ~StartsDated(text) \/ numberItems = {}
                    THEN Loop(i + 1, txs, openingBalance, closingBalance, currentYear,
                              anchors)
                    ELSE Numbers(items, numberItems,
                                 SubSeq(text, 1, DayMonEnd(text, 1) - 1),
                                 Max({items[n].x : n \in numberItems}))
            IN  IF i > Len(lines)
                THEN [openingBalance |-> openingBalance, closingBalance |-> closingBalance,
                      transactions |-> txs]
                ELSE Line(lines[i], Text(i), NumberItems(lines[i], TRUE))
        Statement(periodMatch, loop) ==
            Returned([openingBalance |-> loop.openingBalance,
                      closingBalance |-> loop.closingBalance,
                      periodStart |-> parseUOBDate(periodMatch[1]),
                      periodEnd |-> parseUOBDate(periodMatch[2]),
                      currency |-> "SGD",
                      accountNumber |-> "",
                      transactions |-> loop.transactions])
        Period(periodMatch) ==
            IF periodMatch = <<>> THEN Thrown("Could not find statement period")
            ELSE Statement(periodMatch,
                           Loop(1, <<>>, 0, 0, FullYear(parseUOBDate(periodMatch[2])),
                                ColumnAnchors(lines, TRUE)))
    IN  Period(PeriodMatch(fullText))

\* parseWithLayout of the UOB One parser
parseUOBOneLayout(lines, fullText) ==
    LET Text(i) == Trim(LineText(lines[i]))
        Value(item) == ParseNumber(Trim(item.str))
        \* the while loop that looks ahead for continuation lines
        RECURSIVE Fold(_, _)
        Fold(j, description) ==
            LET Next(nextText) ==
                    IF \/ DayMonEnd(nextText, 1) # 0
                       \/ Includes(nextText, "BALANCE B/F")
                       \/ Includes(nextText, "End of Transaction")
                    THEN [stop |-> j, description |-> description]
                    ELSE IF isFooterLineOne(nextText) THEN Fold(j + 1, description)
                    ELSE Fold(j + 1, description \o " | " \o nextText)
            IN  IF j > Len(lines) THEN [stop |-> j, description |-> description]
                ELSE Next(Text(j))
        \* the amount of the item found for it, signed by the nearer of the withdrawal
        \* and the deposit anchor
        Signed(anchors, item, rawAmount) ==
            IF Abs(item.x - anchors.withdrawalX) < Abs(item.x - anchors.depositX)
            THEN -Abs(rawAmount)
            ELSE Abs(rawAmount)
        \* balance, amount and descEndIndex of a dated line: lastNum is the position of
        \* its last number item, foundAmountItem that of the amount item or 0
        Columns(anchors, items, lastNum, isBalance, foundAmountItem) ==
            [balance |-> IF isBalance THEN Value(items[lastNum]) ELSE 0,
             amount |-> IF foundAmountItem # 0
                        THEN Signed(anchors, items[foundAmountItem],
                                    Value(items[foundAmountItem]))
                        ELSE 0,
             descEndIndex |->
                Min({Len(items) + 1}
                      \cup (IF isBalance THEN {lastNum} ELSE {})
                      \cup (IF foundAmountItem # 0 THEN {foundAmountItem} ELSE {}))]
        Description(items, descEndIndex, dateStr) ==
            Trim(ReplaceFirst(
                Join([k \in 1..(descEndIndex - 1) |-> items[k].str], " "), dateStr))
        RECURSIVE Loop(_, _, _, _, _)
        Loop(i, txs, closingBalance, currentYear, anchors) ==
            LET Push(dateStr, row, fold) ==
                    Loop(fold.stop,
                         Append(txs, [date |-> formatDate(dateStr, currentYear),
                                      description |-> fold.description,
                                      amount |-> row.amount,
                                      balance |-> row.balance]),
                         IF row.balance # 0 THEN row.balance ELSE closingBalance,
                         currentYear, anchors)
                Row(items, dateStr, row) ==
                    Push(dateStr, row,
                         Fold(i + 1, Description(items, row.descEndIndex, dateStr)))
                Numbers(items, numberItems, dateStr, lastNum, distToBalance) ==
                    Row(items, dateStr,
                        Columns(anchors, items, lastNum,
                                distToBalance < 50 \/ Cardinality(numberItems) >= 2,
                                IF numberItems # {lastNum} THEN Max(numberItems \ {lastNum})
                                ELSE IF distToBalance > 50 THEN lastNum
                                ELSE 0))
                Dated(items, numberItems, dateStr, lastNum) ==
                    Numbers(items, numberItems, dateStr, lastNum,
                            Abs(items[lastNum].x - anchors.balanceX))
                Line(items, text, numberItems) ==
                    IF ~StartsDated(text) \/ numberItems = {}
                    THEN Loop(i + 1, txs, closingBalance, currentYear, anchors)
                    ELSE Dated(items, numberItems,
                               SubSeq(text, 1, DayMonEnd(text, 1) - 1), Max(numberItems))
            IN  IF i > Len(lines) THEN [closingBalance |-> closingBalance, transactions |-> txs]
                ELSE Line(lines[i], Text(i), NumberItems(lines[i], TRUE))
        Statement(periodMatch, loop) ==
            Returned([openingBalance |-> 0,
                      closingBalance |-> loop.closingBalance,
                      periodStart |-> periodMatch[1],
                      periodEnd |-> periodMatch[2],
                      currency |-> "SGD",
                      accountNumber |-> AccountNumber(fullText),
                      transactions |-> loop.transactions])
        Period(periodMatch) ==
            IF periodMatch = <<>> THEN Thrown("Could not find statement period")
            ELSE Statement(periodMatch,
                           Loop(1, <<>>, 0, FullYear(parseUOBDate(periodMatch[2])),
                                ColumnAnchors(lines, FALSE)))
    IN  Period(PeriodMatch(fullText))

\* a filter that keeps every transaction
allTransactions(txs) == txs

\* uniqueTransactions: the transactions whose key `${date}|${description}|${amount}`
\* was not seen before, in their order
uniqueTransactions(txs) ==
    LET Kept(first) == [n \in 1..Cardinality(first) |-> txs[Nth(first, n)]]
    IN  Kept({k \in DOMAIN txs :
                 \A m \in 1..(k - 1) :
                     \/ txs[m].date # txs[k].date
                     \/ txs[m].description # txs[k].description
                     \/ txs[m].amount # txs[k].amount})

\* parseWithLayout of the credit-card parser; clockYear is new Date().getFullYear()
parseUOBCreditCardLayout(lines, fullText, clockYear) ==
    LET Text(i) == Trim(LineText(lines[i]))
        \* fullText.match(/Statement Date\s+(\d{1,2}\s+\w{3}\s+\d{4})/i) at i: the date
        \* group, "" when it does not match there
        StatementDateAt(lower, i) ==
            LET Date(a, e2, e1) ==
                    IF a = i + 14 THEN ""
                    ELSE IF e2 # 0 THEN SubSeq(fullText, a, e2 - 1)
                    ELSE IF e1 # 0 THEN SubSeq(fullText, a, a + e1 - 3)
                    ELSE ""
                After(a) ==
                    Date(a, DayMonYearEnd(fullText, a),
                         DayMonYearEnd("0" \o SubSeq(fullText, a, Len(fullText)), 1))
            IN  IF ~OccursAt(lower, "statement date", i) THEN ""
                ELSE After(RunEnd(fullText, i + 14, WhiteSpace))
        \* parseUOBDate of the credit-card parser: its month table and '01' are those
        \* of parseStatementDate, its year is the third part
        CardDate(dateStr) == parseStatementDate(dateStr, Words(Trim(dateStr))[3])
        StatementDate(lower, hits) ==
            IF hits = {} THEN "" ELSE CardDate(StatementDateAt(lower, Min(hits)))
        \* text.match(/^([A-Z]{3})\s+([\d,.]+)$/): <<>> or the two groups
        ForeignMatch(text) ==
            LET Groups(r) ==
                    IF /\ Len(text) >= 5
                       /\ AllIn(SubSeq(text, 1, 3), UpperLetters)
                       /\ r > 4
                       /\ r <= Len(text)
                       /\ AllIn(SubSeq(text, r, Len(text)), Digits \cup {",", "."})
                    THEN <<SubSeq(text, 1, 3), SubSeq(text, r, Len(text))>>
                    ELSE <<>>
            IN  Groups(RunEnd(text, 4, WhiteSpace))
        \* /^(\d{4}-\d{4}-\d{4}-\d{4})\s+/ on the trimmed text of the next line
        CardNumberLine(nextLine) ==
            /\ Len(nextLine) >= 20
            /\ \A k \in 1..19 :
                  IF k \in {5, 10, 15} THEN Char(nextLine, k) = "-"
                  ELSE Char(nextLine, k) \in Digits
            /\ Char(nextLine, 20) \in WhiteSpace
        \* /^\d{2}\s+\w{3}$/ on a trimmed str
        IsDate(str) == DayMonEnd(str, 1) = Len(str) + 1
        Pick(items, hits) == [n \in 1..Cardinality(hits) |-> items[Nth(hits, n)]]
        \* the transaction of the text-join pass
        Joined(txMatch, text, currentCardName, currentYear) ==
            [date |-> parseStatementDate(txMatch[1], currentYear),
             description |-> Trim(txMatch[2]),
             amount |-> IF OccursAt(text, " CR", Len(text) - 2)
                        THEN ParseNumber(txMatch[3])
                        ELSE -Abs(ParseNumber(txMatch[3])),
             balance |-> 0,
             tag |-> currentCardName]
        \* the transactions, none or one, of the positional pass on a line that has
        \* number items and date items
        Positional(items, numberItems, dateItems, currentCardName, currentYear) ==
            LET Built(amount, description) ==
                    IF description # "" /\ ~shouldSkipLine(description)
                    THEN <<[date |-> parseStatementDate(
                                        IF Len(dateItems) >= 2 THEN Trim(dateItems[2].str)
                                        ELSE Trim(dateItems[1].str),
                                        currentYear),
                            description |-> description,
                            amount |-> IF \E k \in DOMAIN items : Trim(items[k].str) = "CR"
                                       THEN Abs(amount) ELSE -Abs(amount),
                            balance |-> 0,
                            tag |-> currentCardName]>>
                    ELSE <<>>
                Described(descItems) ==
                    Built(ParseNumber(Trim(items[Max(numberItems)].str)),
                          Trim(Join([k \in DOMAIN descItems |-> descItems[k].str], " ")))
            IN  Described(Pick(items, {k \in DOMAIN items :
                                          /\ ~IsDate(Trim(items[k].str))
                                          /\ k \notin numberItems
                                          /\ Trim(items[k].str) \notin {"CR", ""}}))
        RECURSIVE Loop(_, _, _, _)
        Loop(i, currentCardName, txs, currentYear) ==
            LET Skip == Loop(i + 1, currentCardName, txs, currentYear)
                ByPosition(items, numberItems, dateItems) ==
                    IF numberItems = {} THEN Skip
                    ELSE IF dateItems = <<>> THEN [thrown |-> TRUE, transactions |-> txs]
                    ELSE Loop(i + 1, currentCardName,
                              txs \o Positional(items, numberItems, dateItems,
                                                currentCardName, currentYear),
                              currentYear)
                Transaction(items, text, txMatch) ==
                    IF txMatch # <<>> /\ currentCardName # ""
                    THEN Loop(i + 1, currentCardName,
                              Append(txs, Joined(txMatch, text, currentCardName,
                                                 currentYear)),
                              currentYear)
                    ELSE IF DayMonEnd(text, 1) = 0 \/ currentCardName = "" THEN Skip
                    ELSE ByPosition(items, NumberItems(items, FALSE),
                                    Pick(items, {k \in DOMAIN items :
                                                    IsDate(Trim(items[k].str))}))
                Foreign(items, text, foreignMatch) ==
                    IF foreignMatch # <<>> /\ txs # <<>>
                    THEN Loop(i + 1, currentCardName,
                              [txs EXCEPT ![Len(txs)].description =
                                  @ \o " (" \o foreignMatch[1] \o " " \o foreignMatch[2]
                                    \o ")"],
                              currentYear)
                    ELSE IF OccursAt(text, "Ref No.", 1) THEN Skip
                    ELSE Transaction(items, text, CardTransactionMatch(text))
                Line(items, text, cardMatch) ==
                    IF text = "" THEN Skip
                    ELSE IF cardMatch # Null
                    THEN Loop(IF i + 1 <= Len(lines) /\ CardNumberLine(Text(i + 1))
                              THEN i + 2 ELSE i + 1,
                              cardMatch, txs, currentYear)
                    ELSE IF shouldSkipLine(text) THEN Skip
                    ELSE Foreign(items, text, ForeignMatch(text))
                AtLine(text) == Line(lines[i], text, detectCardHeader(text))
            IN  IF i > Len(lines) THEN [thrown |-> FALSE, transactions |-> txs]
                ELSE AtLine(Text(i))
        Statement(statementDate, loop) ==
            IF loop.thrown
            THEN Thrown("Cannot read properties of undefined (reading 'str')")
            ELSE Returned([openingBalance |-> 0,
                           closingBalance |-> 0,
                           periodStart |-> statementDate,
                           periodEnd |-> statementDate,
                           currency |-> "SGD",
                           accountNumber |-> "",
                           transactions |-> uniqueTransactions(loop.transactions)])
        Parse(statementDate) ==
            Statement(statementDate,
                      Loop(1, "", <<>>,
                           IF statementDate # "" THEN FullYear(statementDate)
                           ELSE clockYear))
        Lowered(lower) ==
            Parse(StatementDate(lower,
                                {i \in 1..Len(fullText) : StatementDateAt(lower, i) # ""}))
    IN  Lowered(ToLowerCase(fullText))

\* parser({ text, lines }) with lines that are not empty: each parser hands the lines
\* and the text to its parseWithLayout
RunLayoutParser(parser, lines, clockYear) ==
    LET WithText(fullText) ==
            CASE parser = "parseUOBLadyStatement" -> parseUOBLadyLayout(lines, fullText)
              [] parser = "parseUOBOneStatement" -> parseUOBOneLayout(lines, fullText)
              [] parser = "parseUOBCreditCardStatement" ->
                    parseUOBCreditCardLayout(lines, fullText, clockYear)
    IN  WithText(Join([k \in DOMAIN lines |-> LineText(lines[k])], "\n"))

(***************************************************************************)
(* The accounts, files and statement texts that the state machines import  *)
(***************************************************************************)
Accounts ==
    {[id |-> "one", institution |-> "UOB", name |-> "UOB One (with FX+)", type |-> "bank"],
     [id |-> "ocbc", institution |-> "OCBC", name |-> "360 Account", type |-> "hysa"]}

OwnerId == "owner1"

\* the CSV files offered to importCSV: one with two different rows, one with the same
\* row three times, one whose first row is a row of the first file in another
\* date format and letter case and whose second row fails, one with no amount column
CsvFiles ==
    {"Date,Description,Amount\n2026-01-05,NETS Purchase,-45.60\n2026-01-06,Salary ACME,3000.00",
     "Date,Description,Amount\n2026-01-07,Kopi,-1.20\n2026-01-07,Kopi,-1.20\n2026-01-07,Kopi,-1.20",
     "date,description,amount\n05/01/2026, nets purchase ,-45.60\nsoon,Bad row,1.00\n2026-01-08,Bus,-2.00",
     "Date,Description\n2026-01-05,NETS Purchase"}

\* the statement texts offered to importUOBStatement: one well-formed whose first
\* transaction is the first row of the first CSV file, one with no period line, one
\* with a dated row that has no amount before its balance and a row under it
StatementTexts ==
    {"Period: 01 Jan 2026 to 31 Jan 2026\nAccount Transaction Details\n01 Jan BALANCE B/F 1,250.00\n05 Jan NETS PURCHASE 45.60 1,204.40\n09 Jan Funds Transfer 100.00 1,304.40\nEnd of Transaction Details",
     "Account Transaction Details\n05 Jan NETS PURCHASE 45.60 1,204.40\nEnd of Transaction Details",
     "Period: 01 Jan 2026 to 31 Jan 2026\nAccount Transaction Details\n01 Jan BALANCE B/F 1,250.00\n05 Jan NETS PURCHASE 45.60 1,204.40\n07 Jan GIRO PAYMENT 1,184.40\nREF 778\nEnd of Transaction Details"}

\* the files offered to the Import page: name, MIME type, and the text that
\* file.text() or extractTextFromPDF gives.  A CSV file with one row whose raw amount
\* is negative under an income keyword, a statement with one withdrawal, a statement
\* without its period line, a CSV file with no data row, and a file of another type.
Files ==
    {[name |-> "jan.csv", type |-> "text/csv",
      content |-> "Date,Description,Amount\n2026-01-05,Salary ACME,-3000.00"],
     [name |-> "jan.pdf", type |-> "application/pdf",
      content |-> "Period: 01 Jan 2026 to 31 Jan 2026\nAccount Transaction Details\n01 Jan BALANCE B/F 1,250.00\n05 Jan NETS PURCHASE 45.60 1,204.40\nEnd of Transaction Details"],
     [name |-> "scan.PDF", type |-> "",
      content |-> "Account Transaction Details\n05 Jan NETS PURCHASE 45.60 1,204.40"],
     [name |-> "empty.csv", type |-> "", content |-> "Date,Description,Amount"],
     [name |-> "notes.txt", type |-> "text/plain", content |-> "remember the rent"]}

(***************************************************************************)
(* Parser registry: parsers/index.ts                                       *)
(***************************************************************************)
PARSER_REGISTRY ==
    <<[institution |-> "UOB", accountName |-> "UOB Lady's Savings",
       parser |-> "parseUOBLadyStatement"],
      [institution |-> "UOB", accountName |-> "UOB One (with FX+)",
       parser |-> "parseUOBOneStatement"],
      [institution |-> "UOB", accountName |-> "UOB Credit Card",
       parser |-> "parseUOBCreditCardStatement"]>>

\* a lookup that goes by the institution alone
getParserByInstitution(account) ==
    LET hits == {k \in 1..Len(PARSER_REGISTRY) :
                    PARSER_REGISTRY[k].institution = account.institution}
    IN  IF hits # {}
        THEN PARSER_REGISTRY[CHOOSE k \in hits : \A m \in hits : k <= m].parser
        ELSE "parseUOBOneStatement"

\* the first registry entry of the account's institution and name; UOB One otherwise
getParser(account) ==
    LET hits == {k \in 1..Len(PARSER_REGISTRY) :
                    /\ PARSER_REGISTRY[k].institution = account.institution
                    /\ PARSER_REGISTRY[k].accountName = account.name}
    IN  IF hits # {}
        THEN PARSER_REGISTRY[CHOOSE k \in hits : \A m \in hits : k <= m].parser
        ELSE "parseUOBOneStatement"

\* the years new Date().getFullYear() may give
ClockYears == {"2026", "2027"}

\* parser(text): importUOBStatement and the Import page hand the parser the extracted
\* text alone, so no layout lines reach it.  The text forms of the UOB One parser and
\* of the credit-card parser are modelled.
RunParser(parser, text, clockYear) ==
    CASE parser = "parseUOBOneStatement" -> parseUOBOneStatementText(text)
      [] parser = "parseUOBCreditCardStatement" ->
            parseUOBCreditCardStatementText(text, clockYear)

\* parseCSV and the parsers are pure: their results on the files and texts above are
\* computed once and looked up afterwards
ParsedCsvFiles ==
    [impl \in DateImpls |->
        [content \in CsvFiles \cup {f.content : f \in Files} |-> parseCSV(content, impl)]]

ParsedStatementTexts ==
    [parser \in {"parseUOBOneStatement", "parseUOBCreditCardStatement"} |->
        [clockYear \in ClockYears |->
            [text \in StatementTexts \cup {f.content : f \in Files} |->
                RunParser(parser, text, clockYear)]]]

\* parseCSV(content) and parser(text) on a file or text of the sets above
ParseCsvText(content, impl) == ParsedCsvFiles[impl][content]

RunParserOnText(parser, text, clockYear) == ParsedStatementTexts[parser][clockYear][text]

(***************************************************************************)
(* Ingestion service: services/ingestionService.ts and its later revision  *)
(* with importUOBStatement                                                 *)
(***************************************************************************)
\* a loop that never adds the hash to the set
AddHashSkipped(hashes, hash) == hashes

\* a loop that keeps only the last hash in the set
AddHashReplacing(hashes, hash) == {hash}

\* existingHashes.add(hash)
AddHash(hashes, hash) == hashes \cup {hash}

\* the six-argument callers of processTransaction belong to the revision whose
\* Transaction carries no ownerId; they are given this owner
NoOwner == "undefined"

RECURSIVE ImportLoopPerAccount(_, _, _, _, _, _, _)
\* a loop that tests and adds `${account.id}-${hash}`, the id of the transaction
ImportLoopPerAccount(rows, i, ownerId, account, hashes, txs, duplicates) ==
    LET Row(row, id) ==
            IF id \in hashes
            THEN ImportLoopPerAccount(rows, i + 1, ownerId, account, hashes, txs,
                                      duplicates + 1)
            ELSE ImportLoopPerAccount(rows, i + 1, ownerId, account, hashes \cup {id},
                                      Append(txs,
                                             processTransaction(id, row.date,
                                                                row.description, row.amount,
                                                                ownerId, account.id,
                                                                account.type)),
                                      duplicates)
    IN  IF i > Len(rows)
        THEN [transactions |-> txs, duplicates |-> duplicates, hashes |-> hashes]
        ELSE Row(rows[i],
                 account.id \o "-"
                    \o generateTransactionHash(rows[i].date, rows[i].description,
                                               rows[i].amount))

\* for (const row of rows) { hash; has -> duplicates++; else push and add }
RECURSIVE ImportLoop(_, _, _, _, _, _, _)
ImportLoop(rows, i, ownerId, account, hashes, txs, duplicates) ==
    LET Row(row, hash) ==
            IF hash \in hashes
            THEN ImportLoop(rows, i + 1, ownerId, account, hashes, txs, duplicates + 1)
            ELSE ImportLoop(rows, i + 1, ownerId, account, AddHash(hashes, hash),
                            Append(txs,
                                   processTransaction(account.id \o "-" \o hash, row.date,
                                                      row.description, row.amount, ownerId,
                                                      account.id, account.type)),
                            duplicates)
    IN  IF i > Len(rows)
        THEN [transactions |-> txs, duplicates |-> duplicates, hashes |-> hashes]
        ELSE Row(rows[i],
                 generateTransactionHash(rows[i].date, rows[i].description, rows[i].amount))

\* the ImportResult and the hash set as the call leaves it
importCSV(content, ownerId, account, hashes, impl) ==
    LET Result(parsed, loop) ==
            [ok |-> TRUE,
             result |-> [transactions |-> loop.transactions,
                         duplicates |-> loop.duplicates, errors |-> parsed.errors],
             hashes |-> loop.hashes]
        Parsed(parsed) ==
            Result(parsed, ImportLoop(parsed.rows, 1, ownerId, account, hashes, <<>>, 0))
    IN  Parsed(ParseCsvText(content, impl))

\* a parser's throw leaves the promise rejected and the set as it was
importUOBStatement(text, account, hashes, clockYear) ==
    LET Result(loop) ==
            [ok |-> TRUE,
             result |-> [transactions |-> loop.transactions,
                         duplicates |-> loop.duplicates, errors |-> <<>>],
             hashes |-> loop.hashes]
        Parsed(parsed) ==
            IF ~parsed.ok
            THEN [ok |-> FALSE, error |-> parsed.error, hashes |-> hashes]
            ELSE Result(ImportLoop(parsed.value.transactions, 1, NoOwner, account, hashes,
                                   <<>>, 0))
    IN  Parsed(RunParserOnText(getParser(account), text, clockYear))


(***************************************************************************)
(* Specification of the ingestion service: calls of importCSV and of       *)
(* importUOBStatement that share one existingHashes set                    *)
(***************************************************************************)
\* hashes the set may hold before the first call
InitialHashes ==
    {generateTransactionHash("2026-01-05", "NETS Purchase", -4560),
     generateTransactionHash("2026-01-07", "Kopi", -120)}

NoCall == [fn |-> "none", input |-> "", account |-> "none"]

\* no importCSV call has been started and not yet resumed
NoPending == [waiting |-> <<>>, overlapped |-> FALSE, started |-> 0]

\* what the model remembers of a call: its arguments, the set it was given, and what
\* it returned or threw
CallOf(fn, input, account, before, out) ==
    [fn |-> fn, input |-> input, account |-> account, before |-> before, ok |-> out.ok,
     transactions |-> IF out.ok THEN out.result.transactions ELSE <<>>,
     duplicates |-> IF out.ok THEN out.result.duplicates ELSE 0,
     errors |-> IF out.ok THEN out.result.errors ELSE <<out.error>>]

\* the fingerprint a returned transaction was admitted under: its id is
\* account.id, "-", hash
FingerprintOf(t) == SubSeq(t.id, Len(t.accountId) + 2, Len(t.id))

RECURSIVE FingerprintBag(_)
FingerprintBag(txs) ==
    IF txs = <<>> THEN EmptyBag
    ELSE SetToBag({FingerprintOf(Head(txs))}) (+) FingerprintBag(Tail(txs))

Fingerprints(txs) == {FingerprintOf(txs[k]) : k \in 1..Len(txs)}

\* the step of a call: prevCall keeps the run before it when the call repeats that
\* run (same function, same input, same account), and is NoCall otherwise
Record(c, hashes) ==
    /\ prevCall' = IF /\ call.fn = c.fn
                      /\ call.input = c.input
                      /\ call.account = c.account
                   THEN call ELSE NoCall
    /\ call' = c
    /\ existingHashes' = hashes
    /\ admitted' = admitted (+) FingerprintBag(c.transactions)
    /\ UNCHANGED <<dateImpl, pending, pageVars, appVars, probe>>

ImportCSV ==
    \E content \in CsvFiles, account \in Accounts :
        LET Returns(out) ==
                Record(CallOf("importCSV", content, account, existingHashes, out),
                       out.hashes)
        IN  Returns(importCSV(content, OwnerId, account, existingHashes, dateImpl))

ImportUOBStatement ==
    \E text \in StatementTexts, account \in Accounts, clockYear \in ClockYears :
        LET Settles(out) ==
                Record(CallOf("importUOBStatement", text, account, existingHashes, out),
                       out.hashes)
        IN  Settles(importUOBStatement(text, account, existingHashes, clockYear))

Init ==
    /\ dateImpl \in DateImpls
    /\ existingHashes \in SUBSET InitialHashes
    /\ call = NoCall
    /\ prevCall = NoCall
    /\ admitted = EmptyBag
    /\ pending = NoPending
    /\ state = <<>>
    /\ upload = <<>>
    /\ confirmed = <<>>
    /\ transactions = <<>>
    /\ imports = <<>>
    /\ snapshots = <<>>
    /\ probe = <<>>

Next == ImportCSV \/ ImportUOBStatement

Spec == Init /\ [][Next]_vars

(***************************************************************************)
(* Properties of the ingestion service                                     *)
(***************************************************************************)
\* call is the second of two runs in sequence on the same input and account with
\* the shared set, and both runs returned
SecondRun == prevCall # NoCall /\ prevCall.ok /\ call.ok

\* C1 (as the code has it): the second of two runs in sequence on the same file with
\* the same existingHashes set returns zero transactions, and its duplicates count
\* equals the number of rows the first run read: the transactions the first run
\* returned plus the duplicates the first run counted
C1_SecondRunAllDuplicates ==
    SecondRun =>
        /\ call.transactions = <<>>
        /\ call.duplicates = Len(prevCall.transactions) + prevCall.duplicates

\* C1 as stated: the second run returns zero transactions and its duplicates count
\* equals the number of transactions the first run returned
C1_AsStated ==
    SecondRun =>
        /\ call.transactions = <<>>
        /\ call.duplicates = Len(prevCall.transactions)

\* a second run after a first run that returned transactions and counted duplicates
C1_Witness ==
    /\ SecondRun
    /\ Len(prevCall.transactions) >= 1
    /\ prevCall.duplicates >= 1
    /\ call.duplicates >= 2

\* C2: over every sequence of importCSV / importUOBStatement calls that share one
\* existingHashes set, each fingerprint occurs in the returned transactions at most
\* once, and after each call the set is the set before the call plus exactly the
\* fingerprints of the transactions that call returned
C2_AtMostOnceAdmission ==
    /\ \A f \in BagToSet(admitted) : CopiesIn(f, admitted) = 1
    /\ call # NoCall =>
          existingHashes = call.before \cup Fingerprints(call.transactions)

\* a call on a file with repeated identical rows that admitted the row once and
\* counted its repetitions as duplicates, after an earlier call admitted other rows
C2_Witness ==
    /\ call # NoCall
    /\ call.ok
    /\ Len(call.transactions) = 1
    /\ call.duplicates = 2
    /\ Cardinality(BagToSet(admitted)) >= 3


(***************************************************************************)
(* Specification of concurrent importCSV calls on one existingHashes set:  *)
(* a call runs to `await file.text()` when it is made, and runs the rest,  *)
(* which holds no other await, when its file has been read                 *)
(***************************************************************************)
\* the largest number of calls waiting for their file at one time
MaxPending == 2

\* the largest number of importCSV calls made
MaxCalls == 3

\* a loop that tests and fills a copy of the set made when the call was made
HashesAtStart(shared, atStart) == atStart

\* the set the loop tests and fills: existingHashes is a reference to the caller's
\* Set, which the loop reads as it is when the call resumes
HashesAtResume(shared, atStart) == shared

\* the sequence without its k-th element
RemoveAt(seq, k) == SubSeq(seq, 1, k - 1) \o SubSeq(seq, k + 1, Len(seq))

\* importCSV(file, ownerId, account, existingHashes) up to `await file.text()`
StartImportCSV ==
    /\ pending.started < MaxCalls
    /\ Len(pending.waiting) < MaxPending
    /\ \E content \in CsvFiles, account \in Accounts :
          pending' = [waiting |-> Append(pending.waiting,
                                         [content |-> content, account |-> account,
                                          atStart |-> existingHashes]),
                      overlapped |-> pending.waiting # <<>>,
                      started |-> pending.started + 1]
    /\ UNCHANGED <<dateImpl, existingHashes, call, prevCall, admitted, pageVars, appVars,
                   probe>>

\* the rest of a call, from parseCSV to the return, once its file has been read:
\* the files of the waiting calls are read in any order.  prevCall is the call
\* that returned before this one.
ResumeImportCSV ==
    \E k \in DOMAIN pending.waiting :
        LET Returns(w, before, out) ==
                /\ call' = CallOf("importCSV", w.content, w.account, before, out)
                /\ prevCall' = call
                /\ existingHashes' = out.hashes
                /\ admitted' = admitted (+) FingerprintBag(out.result.transactions)
                /\ pending' = [pending EXCEPT !.waiting = RemoveAt(pending.waiting, k)]
                /\ UNCHANGED <<dateImpl, pageVars, appVars, probe>>
            Resumes(w, hashes) ==
                Returns(w, hashes, importCSV(w.content, OwnerId, w.account, hashes, dateImpl))
        IN  Resumes(pending.waiting[k],
                    HashesAtResume(existingHashes, pending.waiting[k].atStart))

ConcurrentNext == StartImportCSV \/ ResumeImportCSV

ConcurrentSpec == Init /\ [][ConcurrentNext]_vars

\* the last two calls that returned were waiting for their files at the same time
Overlapped == pending.waiting = <<>> /\ pending.overlapped /\ prevCall # NoCall

\* C29: when importCSV calls are made concurrently on one existingHashes set, each
\* fingerprint occurs in at most one transaction over all the results returned, and
\* the two calls that overlapped share no fingerprint between their results
C29_NoDoubleAdmission ==
    /\ \A f \in BagToSet(admitted) : CopiesIn(f, admitted) = 1
    /\ Overlapped => Fingerprints(prevCall.transactions) \cap Fingerprints(call.transactions) = {}

\* C26: deduplication is keyed on the fingerprint alone: a call for one account
\* returns no transaction whose fingerprint the call before it admitted for another
\* account, and when it reads the same file it returns no transaction at all and
\* counts every row of the file as a duplicate
C26_DedupIgnoresAccount ==
    (prevCall # NoCall /\ prevCall.account # call.account)
    => /\ Fingerprints(call.transactions) \cap Fingerprints(prevCall.transactions) = {}
       /\ prevCall.input = call.input
          => /\ call.transactions = <<>>
             /\ call.duplicates = Len(prevCall.transactions) + prevCall.duplicates

\* a file whose two rows were admitted for the account one, read again for the
\* account ocbc: no transaction, two duplicates
C26_Witness ==
    /\ prevCall # NoCall
    /\ prevCall.account.id = "one"
    /\ call.account.id = "ocbc"
    /\ prevCall.input = call.input
    /\ Len(prevCall.transactions) = 2
    /\ call.transactions = <<>>
    /\ call.duplicates = 2
    /\ ~pending.overlapped

\* two calls on the same file made one after the other before either file was read:
\* the one that resumed first returned both rows, the other counted both as duplicates
C29_Witness ==
    /\ Overlapped
    /\ prevCall.input = call.input
    /\ Len(prevCall.transactions) = 2
    /\ call.transactions = <<>>
    /\ call.duplicates = 2


(***************************************************************************)
(* Import page (pages/Import.tsx, latest revision) and App (app/App.tsx)   *)
(***************************************************************************)
\* TransactionType, the keys of TRANSACTION_TYPE_LABELS
TransactionTypes == {"expense", "income", "investment", "transfer"}

\* the categories the preview offers: CATEGORIES of classificationService, of which
\* one label is kept
CATEGORIES == {"Food & Dining"}

\* Math.random().toString(36).substr(2, 5): up to five characters of 0-9 and a-z
RandomSuffixes == {"", "k3x9q"}

\* the largest number of imports confirmed on the page
MaxImports == 2

validateFileType(file) ==
    LET Ext(lower, dots) ==
            IF dots = {} THEN lower ELSE SubSeq(lower, Max(dots), Len(lower))
        Checked(ext) ==
            IF file.type \in {"text/csv", "application/pdf"} \/ ext \in {".csv", ".pdf"}
            THEN [valid |-> TRUE, error |-> Null]
            ELSE [valid |-> FALSE, error |-> "Please upload a CSV or PDF file"]
    IN  Checked(Ext(ToLowerCase(file.name),
                    {k \in 1..Len(file.name) : Char(file.name, k) = "."}))

isPDFFile(file) ==
    \/ file.type = "application/pdf"
    \/ OccursAt(ToLowerCase(file.name), ".pdf", Len(file.name) - 3)

\* selectedAccount: null and file: null
NoAccount == [id |-> Null]
NoFile == [name |-> Null]

\* the ImportState the page starts with, and that handleStartOver sets
InitialImportState ==
    [step |-> "select-account",
     selectedAccount |-> NoAccount,
     file |-> NoFile,
     parsedTransactions |-> <<>>,
     duplicateCount |-> 0,
     errors |-> <<>>,
     isLoading |-> FALSE,
     openingBalance |-> Undefined,
     closingBalance |-> Undefined]

\* what the model remembers of the upload that is previewed: the file and account,
\* the rows read from the file, and the rows that became parsedTransactions
NoUpload == [fileName |-> Null, accountId |-> Null, rows |-> <<>>, kept |-> <<>>]

\* for (const row of rows) { hash; has -> duplicateCount++, continue; uniqueId;
\* processTransaction; push }: the set is only read
RECURSIVE PreviewLoop(_, _, _, _, _, _, _, _)
PreviewLoop(rows, i, account, hashes, suffixes, txs, kept, duplicateCount) ==
    LET Row(row, hash) ==
            IF hash \in hashes
            THEN PreviewLoop(rows, i + 1, account, hashes, suffixes, txs, kept,
                             duplicateCount + 1)
            ELSE PreviewLoop(rows, i + 1, account, hashes, suffixes,
                             Append(txs,
                                    processTransaction(
                                        account.id \o "-" \o hash \o "-" \o suffixes[i],
                                        row.date, row.description, row.amount, NoOwner,
                                        account.id, account.type)),
                             Append(kept, row), duplicateCount)
    IN  IF i > Len(rows)
        THEN [transactions |-> txs, kept |-> kept, duplicateCount |-> duplicateCount]
        ELSE Row(rows[i],
                 generateTransactionHash(rows[i].date, rows[i].description, rows[i].amount))

\* a <= b in the order of Array.prototype.sort without a comparator: by code units
SortsBefore(a, b) ==
    LET First(diff) ==
            IF diff = {} THEN Len(a) <= Len(b)
            ELSE CharCodeAt(Char(a, Min(diff))) < CharCodeAt(Char(b, Min(diff)))
    IN  First({k \in 1..Min({Len(a), Len(b)}) : Char(a, k) # Char(b, k)})

\* sortedDates[sortedDates.length - 1]
LatestDate(txs) ==
    CHOOSE d \in {txs[k].date : k \in DOMAIN txs} :
        \A k \in DOMAIN txs : SortsBefore(txs[k].date, d)

\* crypto.randomUUID(): an id no earlier import has
ImportId(n) == "import-" \o NatToString(n)

\* the account buttons are shown at the step select-account
HandleAccountSelect ==
    /\ state.step = "select-account"
    /\ Len(confirmed) < MaxImports
    /\ \E account \in Accounts :
          state' = [state EXCEPT !.step = "upload", !.selectedAccount = account]
    /\ UNCHANGED <<dateImpl, existingHashes, serviceVars, upload, confirmed, appVars, probe>>

\* the file input is shown at the step upload while nothing is loading; the text of
\* the file is what file.text() or extractTextFromPDF resolves to
HandleFileUpload ==
    /\ state.step = "upload"
    /\ ~state.isLoading
    /\ \E file \in Files, clockYear \in ClockYears :
          LET Failed(message) ==
                  /\ state' = [state EXCEPT !.errors = <<message>>, !.isLoading = FALSE]
                  /\ upload' = upload
              Shown(rows, parseErrors, openingBalance, closingBalance, loop) ==
                  /\ state' = [state EXCEPT !.step = "preview",
                                            !.file = file,
                                            !.parsedTransactions = loop.transactions,
                                            !.duplicateCount = loop.duplicateCount,
                                            !.errors = parseErrors,
                                            !.isLoading = FALSE,
                                            !.openingBalance = openingBalance,
                                            !.closingBalance = closingBalance]
                  /\ upload' = [fileName |-> file.name,
                                accountId |-> state.selectedAccount.id,
                                rows |-> rows, kept |-> loop.kept]
              Previewed(rows, parseErrors, openingBalance, closingBalance) ==
                  \E suffixes \in [1..Len(rows) -> RandomSuffixes] :
                      Shown(rows, parseErrors, openingBalance, closingBalance,
                            PreviewLoop(rows, 1, state.selectedAccount, existingHashes,
                                        suffixes, <<>>, <<>>, 0))
              Statement(parsedStatement) ==
                  IF ~parsedStatement.ok THEN Failed(parsedStatement.error)
                  ELSE Previewed(parsedStatement.value.transactions, <<>>,
                                 parsedStatement.value.openingBalance,
                                 parsedStatement.value.closingBalance)
              Csv(result) == Previewed(result.rows, result.errors, Undefined, Undefined)
              Validated(validation) ==
                  IF ~validation.valid THEN Failed(validation.error)
                  ELSE IF isPDFFile(file)
                       THEN Statement(RunParserOnText(getParser(state.selectedAccount),
                                                      file.content, clockYear))
                       ELSE Csv(ParseCsvText(file.content, dateImpl))
          IN  Validated(validateFileType(file))
    /\ UNCHANGED <<dateImpl, existingHashes, serviceVars, confirmed, appVars, probe>>

\* the type select of a previewed transaction
HandleTransactionTypeChange ==
    /\ state.step = "preview"
    /\ \E k \in DOMAIN state.parsedTransactions, newType \in TransactionTypes :
          state' = [state EXCEPT !.parsedTransactions =
                      [j \in DOMAIN state.parsedTransactions |->
                          IF state.parsedTransactions[j].id = state.parsedTransactions[k].id
                          THEN [state.parsedTransactions[j] EXCEPT
                                   !.type = newType,
                                   !.amount = SignedAmount(newType, @)]
                          ELSE state.parsedTransactions[j]]]
    /\ UNCHANGED <<dateImpl, existingHashes, serviceVars, upload, confirmed, appVars, probe>>

\* the category select of a previewed transaction
HandleCategoryChange ==
    /\ state.step = "preview"
    /\ \E k \in DOMAIN state.parsedTransactions, newCategory \in CATEGORIES :
          state' = [state EXCEPT !.parsedTransactions =
                      [j \in DOMAIN state.parsedTransactions |->
                          IF state.parsedTransactions[j].id = state.parsedTransactions[k].id
                          THEN [state.parsedTransactions[j] EXCEPT !.category = newCategory]
                          ELSE state.parsedTransactions[j]]]
    /\ UNCHANGED <<dateImpl, existingHashes, serviceVars, upload, confirmed, appVars, probe>>

\* the Import button of the preview, enabled when there is a transaction to import.
\* handleSnapshot appends the snapshot; handleImportTransactions appends the tagged
\* transactions to the ledger, and the ImportRecord (its date, the clock's, left out)
\* when addTransactions resolved to true
HandleConfirmImport ==
    /\ state.step = "preview"
    /\ Len(state.parsedTransactions) > 0
    /\ \E success \in BOOLEAN :
          LET Confirmed(importId) ==
                  /\ snapshots' =
                        IF state.closingBalance # Undefined
                        THEN Append(snapshots,
                                    [date |-> LatestDate(state.parsedTransactions),
                                     accountId |-> state.selectedAccount.id,
                                     balance |-> state.closingBalance,
                                     importId |-> importId])
                        ELSE snapshots
                  /\ transactions' =
                        transactions \o
                            [j \in DOMAIN state.parsedTransactions |->
                                [importId |-> importId] @@ state.parsedTransactions[j]]
                  /\ imports' =
                        IF success
                        THEN Append(imports,
                                    [id |-> importId,
                                     fileName |-> state.file.name,
                                     accountId |-> state.selectedAccount.id,
                                     transactionCount |-> Len(state.parsedTransactions)])
                        ELSE imports
          IN  Confirmed(ImportId(Len(confirmed) + 1))
    /\ state' = [state EXCEPT !.step = "complete"]
    /\ confirmed' = Append(confirmed, upload)
    /\ UNCHANGED <<dateImpl, existingHashes, serviceVars, upload, probe>>

\* Back to accounts (step upload, nothing loading), Cancel (step preview) and Import
\* Another (step complete)
HandleStartOver ==
    /\ state.step \in {"upload", "preview", "complete"}
    /\ ~state.isLoading
    /\ state' = InitialImportState
    /\ upload' = NoUpload
    /\ UNCHANGED <<dateImpl, existingHashes, serviceVars, confirmed, appVars, probe>>

\* the delete button of an ImportRecord of the App's imports, the confirm dialog
\* accepted: the ledger and the imports are filtered by the id of the record; what
\* the three deletions from Sheets resolve to changes nothing in the App's state,
\* and its snapshots are left as they are
HandleDeleteImport ==
    /\ \E k \in DOMAIN imports :
          /\ transactions' = SelectSeq(transactions, LAMBDA t : t.importId # imports[k].id)
          /\ imports' = SelectSeq(imports, LAMBDA i : i.id # imports[k].id)
    /\ UNCHANGED <<dateImpl, existingHashes, serviceVars, pageVars, snapshots, probe>>

\* the App starts with useState(new Set()) for existingHashes and nothing loaded
AppInit ==
    /\ dateImpl \in DateImpls
    /\ existingHashes = {}
    /\ call = NoCall
    /\ prevCall = NoCall
    /\ admitted = EmptyBag
    /\ pending = NoPending
    /\ state = InitialImportState
    /\ upload = NoUpload
    /\ confirmed = <<>>
    /\ transactions = <<>>
    /\ imports = <<>>
    /\ snapshots = <<>>
    /\ probe = <<>>

AppNext ==
    \/ HandleAccountSelect
    \/ HandleFileUpload
    \/ HandleTransactionTypeChange
    \/ HandleCategoryChange
    \/ HandleConfirmImport
    \/ HandleStartOver
    \/ HandleDeleteImport

AppSpec == AppInit /\ [][AppNext]_vars

(***************************************************************************)
(* Properties of the Import page and the App                               *)
(***************************************************************************)
\* the fingerprint in the id of a ledger transaction: id is accountId, "-", hash,
\* "-", suffix
LedgerFingerprint(t) ==
    LET Hash(rest) == SubSeq(rest, 1, IndexOf(rest, "-") - 1)
    IN  Hash(SubSeq(t.id, Len(t.accountId) + 2, Len(t.id)))

\* the upload previewed is of a file and account that an earlier import confirmed
SecondUpload ==
    /\ state.step = "preview"
    /\ \E k \in DOMAIN confirmed :
          /\ confirmed[k].fileName = upload.fileName
          /\ confirmed[k].accountId = upload.accountId

\* C3: in the application flow, importing the same statement a second time never adds
\* to the ledger a transaction whose account and fingerprint are already in the
\* ledger: the second upload reports every row as a duplicate and offers zero new
\* transactions
C3_ReimportAddsNothing ==
    /\ SecondUpload =>
          /\ state.parsedTransactions = <<>>
          /\ state.duplicateCount = Len(upload.rows)
    /\ \A i, j \in DOMAIN transactions :
          (/\ i # j
           /\ transactions[i].accountId = transactions[j].accountId
           /\ LedgerFingerprint(transactions[i]) = LedgerFingerprint(transactions[j]))
          => transactions[i].importId = transactions[j].importId

\* C5: every Transaction built by processTransaction, and every previewed transaction
\* after any sequence of type changes on the Import page, has amount <= 0 when its
\* type is expense and amount >= 0 when its type is income, investment or transfer,
\* with the absolute value equal to the absolute value of the raw input amount,
\* whatever the raw input sign was; the transactions of the ledger keep these signs
C5_SignConsistency ==
    LET Signed(t) ==
            IF t.type = "expense" THEN t.amount <= 0
            ELSE t.type \in {"income", "investment", "transfer"} /\ t.amount >= 0
    IN  /\ state.step \in {"preview", "complete"} =>
              \A k \in DOMAIN state.parsedTransactions :
                  /\ Signed(state.parsedTransactions[k])
                  /\ Abs(state.parsedTransactions[k].amount) = Abs(upload.kept[k].amount)
        /\ \A k \in DOMAIN transactions : Signed(transactions[k])

\* a row read with a negative amount under an income keyword, built as income, and
\* previewed as a transfer with the positive amount after a type change
C5_Witness ==
    /\ state.step = "preview"
    /\ Len(state.parsedTransactions) = 1
    /\ upload.kept[1].amount = -300000
    /\ classifyTransaction(upload.kept[1].description, upload.kept[1].amount,
                           state.selectedAccount.type) = "income"
    /\ state.parsedTransactions[1].type = "transfer"
    /\ state.parsedTransactions[1].amount = 300000

(***************************************************************************)
(* Specification of the pure functions: an input is drawn, and the         *)
(* function it names is applied to it once                                 *)
(***************************************************************************)
\* the largest number of data lines of a CSV content drawn
MaxCsvRows == 2

\* AccountType, and undefined for the optional sourceAccountType
AccountTypes == {"bank", "hysa", "credit", "brokerage", "retirement", Null}

\* CSV content: the header line and the data lines, joined by line feeds
CsvContent(header, lines) == Join(<<header>> \o lines, "\n")

\* the largest number of rows drawn under the heading of a layout
MaxLayoutRows == 3

\* the layouts drawn, as extractPDFLayout gives them: lines of items with their x.
\* A bank statement is a period line, a column header or none, and up to
\* MaxLayoutRows of: a balance brought forward, a withdrawal, a line under it, a
\* deposit, an amount far from both columns, a footer, an amount with no balance,
\* a balance with no amount; one statement has no period line, and one has a period
\* from December to January with a row of each month.  A card statement
\* is a card header and up to MaxLayoutRows of: a card number, a row the joined
\* text matches, a foreign-currency line, a row with an item after its amount, the
\* header of another card, a row with an item after its amount whose transaction
\* date shares an item with the description, the first row again, a row whose two
\* dates share an item with the description, a refund, and a refund with one date;
\* a statement date is put before the header of those of at most one row, and a
\* row is put before the header of three.
Layouts ==
    LET I(str, x) == [str |-> str, x |-> x]
        PeriodLine == <<I("Period: 01 Jan 2026 to 31 Jan 2026", 50)>>
        ColumnHeader ==
            <<I("Date", 50), I("Description", 100), I("Withdrawals", 360),
              I("Deposits", 450), I("Balance", 520)>>
        BankRows ==
            <<<<I("01 Jan", 50), I("BALANCE B/F", 100), I("1,250.00", 515)>>,
              <<I("05 Jan", 50), I("NETS", 100), I("45.60", 370), I("1,204.40", 515)>>,
              <<I("REF 123", 100)>>,
              <<I("06 Jan", 50), I("Salary", 100), I("500.00", 448), I("1,704.40", 515)>>,
              <<I("07 Jan", 50), I("Odd", 100), I("10.00", 200), I("1,694.40", 515)>>,
              <<I("www.uob.com", 100)>>,
              <<I("08 Jan", 50), I("ATM", 100), I("20.00", 350)>>,
              <<I("09 Jan", 50), I("Interest", 100), I("1,694.40", 515)>>>>
        YearEndPeriodLine == <<I("Period: 15 Dec 2025 to 14 Jan 2026", 50)>>
        YearEndRow ==
            <<I("20 Dec", 50), I("NETS", 100), I("45.60", 370), I("1,204.40", 515)>>
        StatementDateLine == <<I("Statement Date 05 JAN 2026", 50)>>
        CardHeader == <<I("UOB ONE CARD", 50)>>
        CardRows ==
            <<<<I("1234-5678-9012-3456 TAN AH KOW", 50)>>,
              <<I("01 DEC", 50), I("30 NOV", 100), I("GIANT", 150), I("3.85", 500)>>,
              <<I("USD 2.80", 150)>>,
              <<I("04 DEC", 50), I("03 DEC", 100), I("NTUC", 150), I("8.00", 500),
                I("SGD", 540)>>,
              <<I("LADY'S CARD", 50)>>,
              <<I("02 DEC", 50), I("01 DEC GRAB", 100), I("12.00", 500), I("SGD", 540)>>,
              <<I("01 DEC", 50), I("30 NOV", 100), I("GIANT", 150), I("3.85", 500)>>,
              <<I("06 DEC 05 DEC SHOP", 50), I("9.00", 500), I("SGD", 540)>>,
              <<I("08 DEC", 50), I("07 DEC", 100), I("REFUND", 150), I("5.00", 500),
                I("CR", 540)>>,
              <<I("09 DEC", 50), I("REVERSAL", 150), I("6.00", 500), I("CR", 540)>>>>
        \* the rows of a pool at the positions of a set, in the order of the pool
        Rows(pool, S) == [n \in 1..Cardinality(S) |-> pool[Nth(S, n)]]
        Drawn(pool) ==
            {Rows(pool, S) : S \in {T \in SUBSET DOMAIN pool : Cardinality(T) <= MaxLayoutRows}}
    IN  {[parser |-> p, lines |-> <<PeriodLine>> \o h \o rows] :
            p \in {"parseUOBLadyStatement", "parseUOBOneStatement"},
            h \in {<<>>, <<ColumnHeader>>}, rows \in Drawn(BankRows)}
        \cup
        {[parser |-> p, lines |-> <<ColumnHeader, BankRows[2]>>] :
            p \in {"parseUOBLadyStatement", "parseUOBOneStatement"}}
        \cup
        {[parser |-> p, lines |-> <<YearEndPeriodLine, YearEndRow, BankRows[4]>>] :
            p \in {"parseUOBLadyStatement", "parseUOBOneStatement"}}
        \cup
        {[parser |-> "parseUOBCreditCardStatement", lines |-> <<CardHeader>> \o rows] :
            rows \in Drawn(CardRows)}
        \cup
        {[parser |-> "parseUOBCreditCardStatement",
          lines |-> <<StatementDateLine, CardHeader>> \o rows] :
            rows \in {<<>>} \cup {<<CardRows[k]>> : k \in DOMAIN CardRows}}
        \cup
        {[parser |-> "parseUOBCreditCardStatement",
          lines |-> <<CardRows[k], CardHeader, CardRows[4]>>] : k \in {2, 7, 10}}

\* the inputs drawn: dates, amounts and pairs of descriptions for the fingerprint;
\* descriptions, amounts and account types for the classifier; a header and up to
\* MaxCsvRows data lines for parseCSV; a statement text (period line, section start,
\* body and section end, each present or not) and a clock for the statement parsers;
\* accounts of registered and of other institutions and names for getParser; a
\* layout and a clock for the layout form of the parsers
Probes ==
    LET Probe(fn, input) == [fn |-> fn, input |-> input, done |-> FALSE, result |-> <<>>]
        Descriptions ==
            {"NETS Purchase", " nets purchase ", "NETS PURCHASE\t", "Nets  Purchase",
             "Kopi", "kopi ", "PAYNOW REF 1N", "PAYNOW REF 30"}
        Headers ==
            {"Date,Description,Amount", "Posting Date,Details,Debit,Balance",
             "Date,Description"}
        Lines ==
            {"2026-01-05,NETS Purchase,-45.60", "45/13/2026,Kopi,-1.20",
             "07 dec 2026,\"Bus, night\",(2.00),100.00", "soon,Bad row,1.00",
             "2026-01-08,,3.00", "", "  "}
        Periods == {"", "Period: 01 Jan 2026 to 31 Jan 2026\n"}
        Starts == {"", "Account Transaction Details\n"}
        Ends == {"", "\nEnd of Transaction Details"}
        Bodies ==
            {"01 Jan BALANCE B/F 1,250.00\n05 Jan NETS PURCHASE 45.60 1,204.40",
             "07 dec Kopi 1.20 1,248.80",
             "UOB ONE CARD\n06 JAN 05 JAN GIANT 3.85\n08 JAN 07 JAN REFUND 10.00 CR",
             "UOB ONE CARD\n06 JAN 45 Foo GIANT 3.85",
             "UOB ONE CARD\n06 JAN 05 JAN PAYMT THRU E-BANK 100.00 CR",
             "01 Jan BALANCE B/F 0.00\n05 Jan Salary 500.00 500.00\n06 Jan BALANCE B/F 500.00\n07 Jan NETS 45.60 454.40",
             "01 Jan BALANCE B/F 1,250.00\n05 Jan NETS 45.60 1,204.40\nREF 123\nwww.uob.com\nSINGAPORE SG",
             "06 JAN 05 JAN GIANT 3.85\nUOB ONE CARD\n08 JAN 07 JAN NTUC 8.00\nUSD 5.90\nLADY'S CARD\n10 JAN 09 JAN GRAB 12.00"}
    IN  {Probe("generateTransactionHash", [date |-> d, amount |-> a, d1 |-> x, d2 |-> y]) :
            d \in {"2026-01-05", "2026-01-06"}, a \in {-4560, 0, 4560},
            x \in Descriptions, y \in Descriptions}
        \cup
        {Probe("classifyTransaction",
               [description |-> d, amount |-> a, sourceAccountType |-> t]) :
            d \in {"Transfer to Salary account", "Salary dividend", "Dividend SIA",
                   "CREDIT CARD payment", "Payment to UOB Card", "Kopi"},
            a \in {-4560, 0, 4560, NaN}, t \in AccountTypes}
        \cup
        {Probe("parseCSV", [header |-> h, lines |-> l]) :
            h \in Headers, l \in UNION {[1..n -> Lines] : n \in 0..MaxCsvRows}}
        \cup
        {Probe("parser", [parser |-> p, text |-> a \o b \o c \o d, clockYear |-> y]) :
            p \in {"parseUOBOneStatement", "parseUOBCreditCardStatement"},
            a \in Periods, b \in Starts, c \in Bodies, d \in Ends, y \in ClockYears}
        \cup
        {Probe("parser",
               [parser |-> "parseUOBOneStatement",
                text |-> "Period: 15 Dec 2025 to 14 Jan 2026\nAccount Transaction Details\n"
                         \o "20 Dec NETS 45.60 1,204.40\n05 Jan Salary 500.00 1,704.40"
                         \o "\nEnd of Transaction Details",
                clockYear |-> y]) : y \in ClockYears}
        \cup
        {Probe("getParser", [institution |-> i, name |-> n, type |-> "bank"]) :
            i \in {"UOB", "DBS"},
            n \in {"UOB Lady's Savings", "UOB One (with FX+)", "UOB Credit Card",
                   "uob credit card", "360 Account"}}
        \cup
        {Probe("layout", [parser |-> l.parser, lines |-> l.lines, clockYear |-> "2027"]) :
            l \in Layouts}

\* probe once the function has been applied to the input drawn
Applied(result) == [probe EXCEPT !.done = TRUE, !.result = result]

GenerateTransactionHash ==
    /\ probe.fn = "generateTransactionHash"
    /\ ~probe.done
    /\ probe' = Applied(<<generateTransactionHash(probe.input.date, probe.input.d1,
                                                  probe.input.amount),
                          generateTransactionHash(probe.input.date, probe.input.d2,
                                                  probe.input.amount)>>)
    /\ UNCHANGED <<dateImpl, existingHashes, serviceVars, pageVars, appVars>>

ClassifyTransaction ==
    /\ probe.fn = "classifyTransaction"
    /\ ~probe.done
    /\ probe' = Applied(classifyTransaction(probe.input.description, probe.input.amount,
                                            probe.input.sourceAccountType))
    /\ UNCHANGED <<dateImpl, existingHashes, serviceVars, pageVars, appVars>>

ParseCSV ==
    /\ probe.fn = "parseCSV"
    /\ ~probe.done
    /\ probe' = Applied(parseCSV(CsvContent(probe.input.header, probe.input.lines),
                                 dateImpl))
    /\ UNCHANGED <<dateImpl, existingHashes, serviceVars, pageVars, appVars>>

ParseStatement ==
    /\ probe.fn = "parser"
    /\ ~probe.done
    /\ probe' = Applied(RunParser(probe.input.parser, probe.input.text,
                                  probe.input.clockYear))
    /\ UNCHANGED <<dateImpl, existingHashes, serviceVars, pageVars, appVars>>

GetParser ==
    /\ probe.fn = "getParser"
    /\ ~probe.done
    /\ probe' = Applied(getParser(probe.input))
    /\ UNCHANGED <<dateImpl, existingHashes, serviceVars, pageVars, appVars>>

ParseLayout ==
    /\ probe.fn = "layout"
    /\ ~probe.done
    /\ probe' = Applied(RunLayoutParser(probe.input.parser, probe.input.lines,
                                        probe.input.clockYear))
    /\ UNCHANGED <<dateImpl, existingHashes, serviceVars, pageVars, appVars>>

FunctionInit ==
    /\ dateImpl \in DateImpls
    /\ existingHashes = {}
    /\ call = NoCall
    /\ prevCall = NoCall
    /\ admitted = EmptyBag
    /\ pending = NoPending
    /\ state = <<>>
    /\ upload = <<>>
    /\ confirmed = <<>>
    /\ transactions = <<>>
    /\ imports = <<>>
    /\ snapshots = <<>>
    /\ probe \in Probes

FunctionNext ==
    \/ GenerateTransactionHash
    \/ ClassifyTransaction
    \/ ParseCSV
    \/ ParseStatement
    \/ GetParser
    \/ ParseLayout

FunctionSpec == FunctionInit /\ [][FunctionNext]_vars

(***************************************************************************)
(* Properties of the pure functions                                        *)
(***************************************************************************)
\* the function fn has been applied to the input drawn
Done(fn) == probe.fn = fn /\ probe.done

\* d1 and d2 differ only in letter case and in leading or trailing white space: a
\* part of d1 and a part of d2 of the same length, each with nothing but white space
\* before and after it, agree character by character up to the case of the letters
SameButCaseAndMargins(d1, d2) ==
    \E a1 \in 1..(Len(d1) + 1), a2 \in 1..(Len(d2) + 1) :
        \E n \in 0..Len(d1) :
            /\ a1 + n - 1 <= Len(d1)
            /\ a2 + n - 1 <= Len(d2)
            /\ AllIn(SubSeq(d1, 1, a1 - 1), WhiteSpace)
            /\ AllIn(SubSeq(d1, a1 + n, Len(d1)), WhiteSpace)
            /\ AllIn(SubSeq(d2, 1, a2 - 1), WhiteSpace)
            /\ AllIn(SubSeq(d2, a2 + n, Len(d2)), WhiteSpace)
            /\ \A k \in 0..(n - 1) :
                  ToLowerChar(Char(d1, a1 + k)) = ToLowerChar(Char(d2, a2 + k))

\* C4: for every date and amount, generateTransactionHash(date, d1, amount) equals
\* generateTransactionHash(date, d2, amount) whenever d1 and d2 differ only in letter
\* case and in leading or trailing white space
C4_FingerprintNormalization ==
    (Done("generateTransactionHash")
        /\ SameButCaseAndMargins(probe.input.d1, probe.input.d2))
    => probe.result[1] = probe.result[2]

\* two descriptions that differ in letter case and in their margins, hashed to one
\* fingerprint
C4_Witness ==
    /\ Done("generateTransactionHash")
    /\ probe.input.d1 = "NETS Purchase"
    /\ probe.input.d2 = " nets purchase "
    /\ probe.input.amount = -4560
    /\ probe.result[1] = probe.result[2]

\* C6: classifyTransaction returns the first applicable result in the order transfer
\* (the source account type is bank and a transfer pattern matches), income (an
\* income keyword occurs), investment (an investment keyword occurs), income when
\* amount > 0, otherwise expense; so on a bank account a description with a transfer
\* pattern and an income keyword is transfer, a description with an income and an
\* investment keyword is income, and an amount of 0 with no keyword is expense
C6_ClassificationOrder ==
    Done("classifyTransaction") =>
        /\ probe.result =
              (IF /\ probe.input.sourceAccountType = "bank"
                  /\ MatchesTransfer(probe.input.description)
               THEN "transfer"
               ELSE IF HasKeyword(ToLowerCase(probe.input.description), INCOME_KEYWORDS)
                    THEN "income"
               ELSE IF HasKeyword(ToLowerCase(probe.input.description),
                                  INVESTMENT_KEYWORDS)
                    THEN "investment"
               ELSE IF probe.input.amount # NaN /\ probe.input.amount > 0
                    THEN "income"
               ELSE "expense")
        /\ (/\ probe.input.description = "Transfer to Salary account"
            /\ probe.input.sourceAccountType = "bank") => probe.result = "transfer"
        /\ probe.input.description = "Salary dividend" => probe.result = "income"
        /\ (probe.input.description = "Kopi" /\ probe.input.amount = 0)
              => probe.result = "expense"

\* a description with a transfer pattern and an income keyword, on a bank account,
\* classified as transfer
C6_Witness ==
    /\ Done("classifyTransaction")
    /\ probe.input.description = "Transfer to Salary account"
    /\ probe.input.sourceAccountType = "bank"
    /\ probe.result = "transfer"

\* C7: for every description and amount, classifyTransaction with a source account
\* type other than bank (hysa, credit, brokerage, retirement or undefined) never
\* returns transfer, even when the description matches a transfer pattern
C7_TransferOnlyFromBank ==
    (Done("classifyTransaction") /\ probe.input.sourceAccountType # "bank")
    => probe.result # "transfer"

\* a description that matches a transfer pattern and holds no keyword, classified
\* with no source account type
C7_Witness ==
    /\ Done("classifyTransaction")
    /\ probe.input.sourceAccountType = Null
    /\ probe.input.description = "CREDIT CARD payment"
    /\ MatchesTransfer(probe.input.description)
    /\ probe.result = "expense"

\* the statement period marker of a parser is absent from the text
PeriodMarkerAbsent(text) ==
    ~Includes(text, "Period:") /\ ~Includes(ToLowerCase(text), "statement date")

\* a transaction-section boundary marker is absent from the text
SectionMarkerAbsent(text) ==
    \/ ~Includes(text, "Account Transaction Details")
    \/ (~Includes(text, "End of Transaction Details")
           /\ ~Includes(text, "Currency Conversion"))

\* C8: every statement parser raises a structure error and returns no
\* ParsedStatement whenever the statement period marker or a transaction-section
\* boundary marker is absent from the full text
C8_StructureError ==
    (Done("parser")
        /\ (PeriodMarkerAbsent(probe.input.text) \/ SectionMarkerAbsent(probe.input.text)))
    => ~probe.result.ok

\* the header yields a date, a description and an amount column
HeaderYieldsColumns(header) ==
    LET Required(columnMap) ==
            columnMap.date # 0 /\ columnMap.description # 0 /\ columnMap.amount # 0
    IN  Required(detectColumns(parseCSVLine(ToLowerCase(header))))

\* the positions of the non-blank data lines
NonBlank(lines) == {k \in DOMAIN lines : Trim(lines[k]) # ""}

\* C9 (as the code has it): when the CSV header yields a date, a description and an
\* amount column, parseCSV returns; when there is a non-blank data line, every
\* non-blank data line contributes exactly one entry, either to rows or to errors
\* (|rows| + |errors| = number of non-blank data lines), each error naming the line it
\* comes from, so that a line that fails does not stop the lines after it; when there
\* is none, rows is empty and errors is the one message that the file has no data rows
C9_OneEntryPerLine ==
    (Done("parseCSV") /\ HeaderYieldsColumns(probe.input.header)) =>
        IF NonBlank(probe.input.lines) # {}
        THEN /\ Len(probe.result.rows) + Len(probe.result.errors)
                    = Cardinality(NonBlank(probe.input.lines))
             /\ \A e \in DOMAIN probe.result.errors :
                   \E k \in NonBlank(probe.input.lines) :
                      probe.result.errors[e]
                          = "Row " \o NatToString(k + 1) \o ": Could not parse data"
        ELSE /\ probe.result.rows = <<>>
             /\ probe.result.errors = <<"CSV file is empty or has no data rows">>

\* C9 as stated: when the CSV header yields a date, a description and an amount
\* column, |rows| + |errors| = number of non-blank data lines
C9_AsStated ==
    (Done("parseCSV") /\ HeaderYieldsColumns(probe.input.header)) =>
        Len(probe.result.rows) + Len(probe.result.errors)
            = Cardinality(NonBlank(probe.input.lines))

\* a content whose first data line fails and whose second data line is parsed
C9_Witness ==
    /\ Done("parseCSV")
    /\ HeaderYieldsColumns(probe.input.header)
    /\ probe.input.lines = <<"soon,Bad row,1.00", "2026-01-05,NETS Purchase,-45.60">>
    /\ dateImpl = "rejects"
    /\ probe.result.errors = <<"Row 2: Could not parse data">>
    /\ Len(probe.result.rows) = 1
    /\ probe.result.rows[1].description = "NETS Purchase"

\* C10: every date in a row returned by parseCSV and in a transaction returned by a
\* statement parser is a canonical YYYY-MM-DD string with a month in 01..12 and a day
\* in 01..31, whatever the input date was
C10_CanonicalDates ==
    /\ Done("parseCSV") =>
          \A k \in DOMAIN probe.result.rows : IsCanonicalDate(probe.result.rows[k].date)
    /\ (Done("parser") /\ probe.result.ok) =>
          \A k \in DOMAIN probe.result.value.transactions :
              IsCanonicalDate(probe.result.value.transactions[k].date)

\* C16: getParser is total: for every account it returns a parser without throwing;
\* it returns the registered parser exactly when both institution and name equal a
\* registry entry, and otherwise returns the UOB One parser as the default
C16_GetParserTotal ==
    LET Registered(k) ==
            /\ PARSER_REGISTRY[k].institution = probe.input.institution
            /\ PARSER_REGISTRY[k].accountName = probe.input.name
    IN  Done("getParser") =>
            /\ probe.result \in {PARSER_REGISTRY[k].parser : k \in DOMAIN PARSER_REGISTRY}
            /\ \A k \in DOMAIN PARSER_REGISTRY :
                  Registered(k) => probe.result = PARSER_REGISTRY[k].parser
            /\ (\A k \in DOMAIN PARSER_REGISTRY : ~Registered(k))
                  => probe.result = "parseUOBOneStatement"

\* an account whose name is a registered one and whose institution is not, given the
\* default parser
C16_Witness ==
    /\ Done("getParser")
    /\ probe.input.institution = "DBS"
    /\ probe.input.name = "UOB Credit Card"
    /\ probe.result = "parseUOBOneStatement"

\* C13: no transaction returned by parseUOBCreditCardStatement comes from a
\* skip-pattern line: no returned description matches PREVIOUS BALANCE, PAYMT THRU
\* E-BANK, PAYMENT...RECEIVED, CREDIT ADJUSTMENT, SUB TOTAL or TOTAL BALANCE FOR,
\* including when the row carrying that text starts with the posting and transaction
\* dates and ends with an amount
C13_NoSkipPatternRows ==
    (Done("parser") /\ probe.input.parser = "parseUOBCreditCardStatement"
        /\ probe.result.ok)
    => \A k \in DOMAIN probe.result.value.transactions :
          ~shouldSkipLine(probe.result.value.transactions[k].description)

\* the amounts on the BALANCE B/F rows of a text, in the order of the rows
BalanceBroughtForward(text) ==
    LET Amounts(lines, rows) ==
            [k \in 1..Cardinality(rows) |->
                ParseNumber(TrailingNumber(Trim(lines[Nth(rows, k)])))]
        Rows(lines) ==
            Amounts(lines, {k \in DOMAIN lines :
                               /\ Includes(lines[k], "BALANCE B/F")
                               /\ TrailingNumberIndex(Trim(lines[k])) # 0})
    IN  Rows(Split(text, "\n"))

\* C19: openingBalance of a bank ParsedStatement equals the amount on the first
\* BALANCE B/F row of the statement, and no later BALANCE B/F row ever changes it,
\* including when the first row's amount is 0.00
C19_OpeningBalanceFirstRow ==
    (Done("parser") /\ probe.input.parser = "parseUOBOneStatement" /\ probe.result.ok
        /\ BalanceBroughtForward(probe.input.text) # <<>>)
    => probe.result.value.openingBalance = BalanceBroughtForward(probe.input.text)[1]

\* C20: continuation folding stops at the first row after a transaction start that
\* is a new date row, a BALANCE B/F row, a section-end row or a disclaimer/footer
\* row, so no row that comes after a disclaimer/footer row, with no date row in
\* between, is folded into a transaction's description
C20_FoldingStopsAtFooter ==
    LET NotFolded(lines, txs) ==
            \A a \in DOMAIN lines, b \in DOMAIN lines :
                (/\ a < b
                 /\ isFooterLineOne(Trim(lines[a]))
                 /\ Trim(lines[b]) # ""
                 /\ \A c \in a..b : ~StartsDated(Trim(lines[c]) \o " "))
                => \A k \in DOMAIN txs :
                      ~Includes(txs[k].description, " | " \o Trim(lines[b]))
    IN  (Done("parser") /\ probe.input.parser = "parseUOBOneStatement"
            /\ probe.result.ok)
        => NotFolded(Split(probe.input.text, "\n"), probe.result.value.transactions)

\* C14: every canonical transaction's id has the form accountId-fingerprint, and
\* among all transactions produced for one account by any sequence of imports the ids
\* are pairwise distinct
C14_UniqueIds ==
    /\ state.step = "preview" =>
          \A k \in DOMAIN state.parsedTransactions :
              state.parsedTransactions[k].id =
                  state.selectedAccount.id \o "-"
                      \o generateTransactionHash(upload.kept[k].date,
                                                 upload.kept[k].description,
                                                 upload.kept[k].amount)
    /\ \A i \in DOMAIN transactions, j \in DOMAIN transactions :
          (i # j /\ transactions[i].accountId = transactions[j].accountId)
          => transactions[i].id # transactions[j].id

\* the dated rows of a statement text that are not BALANCE B/F rows
DatedRows(text) ==
    LET Rows(lines) ==
            {k \in DOMAIN lines :
                /\ DateLineMatch(Trim(lines[k])) # <<>>
                /\ ~Includes(lines[k], "BALANCE B/F")}
    IN  Rows(Split(text, "\n"))

\* C15: no statement row is dropped silently: for a statement import, every dated
\* row that the parser skips is accounted for by an entry in the errors list of
\* the import result returned to the caller
C15_NoSilentDrop ==
    (call.fn = "importUOBStatement" /\ call.ok)
    => Len(call.errors)
          >= Cardinality(DatedRows(call.input)) - Len(call.transactions) - call.duplicates

\* the column of a number fragment at x as the claims word it: the anchor it is
\* within the threshold of and nearer to than to the other two, "none" without one
NearestColumn(anchors, x) ==
    LET Of(w, d, b) ==
            IF w < 80 /\ w < d /\ w < b THEN "withdrawal"
            ELSE IF d < 80 /\ d < w /\ d < b THEN "deposit"
            ELSE IF b < 80 /\ b < w /\ b < d THEN "balance"
            ELSE "none"
    IN  Of(Abs(x - anchors.withdrawalX), Abs(x - anchors.depositX),
           Abs(x - anchors.balanceX))

\* the lines of a layout that are the source row of a transaction: dated by their
\* first item as the transaction is; the rows of a layout drawn have distinct dates
SourceRows(lines, tx) ==
    {i \in DOMAIN lines :
        /\ StartsDated(Trim(LineText(lines[i])))
        /\ ~Includes(LineText(lines[i]), "BALANCE B/F")
        /\ formatDate(Trim(lines[i][1].str), SubSeq(tx.date, 1, 4)) = tx.date}

\* the number fragments of a line of a layout that fall in a column
FragmentsIn(lines, i, exact, column) ==
    {k \in NumberItems(lines[i], TRUE) :
        NearestColumn(ColumnAnchors(lines, exact), lines[i][k].x) = column}

FarFromColumns(lines, exact) ==
    LET Far(anchors, x) ==
            Abs(x - anchors.withdrawalX) >= 80 /\ Abs(x - anchors.depositX) >= 80
    IN  {i \in DOMAIN lines :
            /\ Cardinality(NumberItems(lines[i], TRUE)) = 2
            /\ Far(ColumnAnchors(lines, exact), lines[i][Min(NumberItems(lines[i], TRUE))].x)}

\* C17: in the layout parse of a bank statement, a transaction whose amount fragment
\* is not within the threshold of the withdrawal or the deposit anchor has the sign
\* of the balance delta: negative when its balance is lower than the running balance
\* before it, positive otherwise
C17_DeltaFallback ==
    (Done("layout") /\ probe.result.ok
        /\ probe.input.parser \in {"parseUOBLadyStatement", "parseUOBOneStatement"})
    => \A t \in DOMAIN probe.result.value.transactions :
          \A i \in SourceRows(probe.input.lines, probe.result.value.transactions[t])
                     \cap FarFromColumns(probe.input.lines,
                                         probe.input.parser = "parseUOBLadyStatement") :
              probe.result.value.transactions[t].amount
                 = IF probe.result.value.transactions[t].balance
                        < (IF t = 1 THEN probe.result.value.openingBalance
                           ELSE probe.result.value.transactions[t - 1].balance)
                   THEN -ParseNumber(probe.input.lines[i][Min(NumberItems(probe.input.lines[i], TRUE))].str)
                   ELSE ParseNumber(probe.input.lines[i][Min(NumberItems(probe.input.lines[i], TRUE))].str)

\* C11: in the statement a bank-statement parser returns, on the text path or on
\* the layout path, the balance of every transaction is the balance of the
\* transaction before it, or openingBalance for the first, plus its amount
C11_RunningBalance ==
    (probe.done /\ probe.fn \in {"parser", "layout"} /\ probe.result.ok
        /\ probe.input.parser \in {"parseUOBLadyStatement", "parseUOBOneStatement"})
    => \A t \in DOMAIN probe.result.value.transactions :
          probe.result.value.transactions[t].balance
             = (IF t = 1 THEN probe.result.value.openingBalance
                ELSE probe.result.value.transactions[t - 1].balance)
               + probe.result.value.transactions[t].amount

\* the second date of a row that starts with two dates, "" for any other line
SecondDate(line) ==
    LET Second(r, e2) == IF e2 = 0 THEN "" ELSE SubSeq(line, r, e2 - 1)
        First(e1, r) == IF e1 = 0 \/ r = e1 THEN "" ELSE Second(r, DayMonEnd(line, r))
    IN  First(DayMonEnd(line, 1), RunEnd(line, DayMonEnd(line, 1), WhiteSpace))

\* the rows of the statement a parser was given that start with two dates and hold
\* the amount of a transaction; the rows of a statement drawn differ in their amounts
CardSourceRows(tx) ==
    LET Holds(line) ==
            /\ SecondDate(line) # ""
            /\ \E k \in DOMAIN Words(line) :
                  /\ IsNumberToken(Words(line)[k])
                  /\ ParseNumber(Words(line)[k]) = Abs(tx.amount)
        Texts == IF probe.fn = "parser" THEN Split(probe.input.text, "\n")
                 ELSE [i \in DOMAIN probe.input.lines |-> LineText(probe.input.lines[i])]
    IN  {Trim(Texts[i]) : i \in {k \in DOMAIN Texts : Holds(Trim(Texts[k]))}}

\* C12: every transaction the credit-card parser returns, on the text path, on the
\* text-join pass and on the positional pass, has the day and the month of the second
\* date of its row
C12_TransactionDate ==
    (probe.done /\ probe.fn \in {"parser", "layout"} /\ probe.result.ok
        /\ probe.input.parser = "parseUOBCreditCardStatement")
    => \A t \in DOMAIN probe.result.value.transactions :
          \A line \in CardSourceRows(probe.result.value.transactions[t]) :
              probe.result.value.transactions[t].date
                 = parseStatementDate(
                       SecondDate(line),
                       SubSeq(probe.result.value.transactions[t].date, 1,
                              Len(probe.result.value.transactions[t].date) - 6))

\* the rows of the statement a parser was given, trimmed: the lines of the text, or
\* the texts of the lines of the layout
ProbeRows ==
    IF probe.fn = "parser"
    THEN [i \in DOMAIN Split(probe.input.text, "\n") |->
             Trim(Split(probe.input.text, "\n")[i])]
    ELSE [i \in DOMAIN probe.input.lines |-> Trim(LineText(probe.input.lines[i]))]

\* the rows that start with a date and print the amount of a transaction
RowsWithAmount(tx) ==
    {i \in DOMAIN ProbeRows :
        /\ DayMonEnd(ProbeRows[i], 1) # 0
        /\ \E k \in DOMAIN Words(ProbeRows[i]) :
              /\ IsNumberToken(Words(ProbeRows[i])[k])
              /\ ParseNumber(Words(ProbeRows[i])[k]) = Abs(tx.amount)}

\* the card-header rows before row i
HeadersBefore(i) == {h \in 1..(i - 1) : detectCardHeader(ProbeRows[h]) # Null}

\* the credit-card parser was applied, on either path, and returned
CardParsed ==
    /\ probe.done
    /\ probe.fn \in {"parser", "layout"}
    /\ probe.input.parser = "parseUOBCreditCardStatement"
    /\ probe.result.ok

\* C21: every transaction of the credit-card parser is tagged with the text of the
\* last card-header row before its row, and the rows before the first card header
\* give no transaction: there are no more transactions than dated rows under a header
C21_TagIsLatestHeader ==
    CardParsed
    => /\ \A t \in DOMAIN probe.result.value.transactions :
             \E i \in RowsWithAmount(probe.result.value.transactions[t]) :
                 /\ HeadersBefore(i) # {}
                 /\ probe.result.value.transactions[t].tag
                       = ProbeRows[Max(HeadersBefore(i))]
       /\ Len(probe.result.value.transactions)
             <= Cardinality({i \in DOMAIN ProbeRows :
                                DayMonEnd(ProbeRows[i], 1) # 0 /\ HeadersBefore(i) # {}})

\* a statement with a dated row before its first header and a row under each of two
\* headers, parsed to two transactions that carry the two headers
C21_Witness ==
    /\ CardParsed
    /\ DayMonEnd(ProbeRows[1], 1) # 0
    /\ Len(probe.result.value.transactions) = 2
    /\ probe.result.value.transactions[1].tag = "UOB ONE CARD"
    /\ probe.result.value.transactions[2].tag = "LADY'S CARD"

\* a row of three capital letters, white space and a number of digits, commas and
\* points
IsForeignRow(row) ==
    /\ Len(Words(row)) = 2
    /\ Len(Words(row)[1]) = 3
    /\ AllIn(Words(row)[1], UpperLetters)
    /\ AllIn(Words(row)[2], Digits \cup {",", "."})

\* C22: on the layout path and on the text-only path of the credit-card parser, a
\* currency row under the row of a transaction adds " (CCY amount)" to the
\* description of that transaction and gives no transaction of its own
C22_ForeignAnnotation ==
    CardParsed
    => \A i \in 1..(Len(ProbeRows) - 1) :
          (/\ IsForeignRow(ProbeRows[i + 1])
           /\ \E t \in DOMAIN probe.result.value.transactions :
                 i \in RowsWithAmount(probe.result.value.transactions[t]))
          => /\ \E t \in DOMAIN probe.result.value.transactions :
                   /\ i \in RowsWithAmount(probe.result.value.transactions[t])
                   /\ Includes(probe.result.value.transactions[t].description,
                               " (" \o Words(ProbeRows[i + 1])[1] \o " "
                                    \o Words(ProbeRows[i + 1])[2] \o ")")
             /\ Len(probe.result.value.transactions)
                   <= Cardinality({k \in DOMAIN ProbeRows :
                                      DayMonEnd(ProbeRows[k], 1) # 0})

\* what a row contributes to the key of its transaction: its text, and the
\* foreign-currency line under it when there is one
RowIdentity(i) ==
    <<ProbeRows[i],
      IF i < Len(ProbeRows) /\ IsForeignRow(ProbeRows[i + 1]) THEN ProbeRows[i + 1] ELSE "">>

\* the rows a transaction may be the first occurrence of: the dated rows that print
\* its amount and repeat no row above them
FirstOccurrences(tx) ==
    {i \in RowsWithAmount(tx) : \A j \in 1..(i - 1) : RowIdentity(j) # RowIdentity(i)}

\* C23: the transactions the credit-card layout parser returns differ pairwise in
\* date, description or amount; each is the transaction of the first of the rows
\* that repeat one another, and they stand in the order of these rows
C23_NoRepeatedKey ==
    (CardParsed /\ probe.fn = "layout")
    => /\ \A t, u \in DOMAIN probe.result.value.transactions :
             t < u
             => \/ probe.result.value.transactions[t].date
                      # probe.result.value.transactions[u].date
                \/ probe.result.value.transactions[t].description
                      # probe.result.value.transactions[u].description
                \/ probe.result.value.transactions[t].amount
                      # probe.result.value.transactions[u].amount
       /\ \E f \in [DOMAIN probe.result.value.transactions -> DOMAIN ProbeRows] :
             /\ \A t \in DOMAIN f :
                   f[t] \in FirstOccurrences(probe.result.value.transactions[t])
             /\ \A t, u \in DOMAIN f : t < u => f[t] < f[u]

\* a layout that holds the same row twice, with another row between the two, parsed
\* to the transaction of the first and the transaction of the other row
C23_Witness ==
    /\ CardParsed
    /\ probe.fn = "layout"
    /\ Len(ProbeRows) = 4
    /\ ProbeRows[2] = ProbeRows[4]
    /\ Len(probe.result.value.transactions) = 2
    /\ RowsWithAmount(probe.result.value.transactions[1]) = {2, 4}
    /\ RowsWithAmount(probe.result.value.transactions[2]) = {3}

\* a row ends with CR after white space
EndsWithCR(row) ==
    /\ Len(row) >= 3
    /\ OccursAt(row, "CR", Len(row) - 1)
    /\ Char(row, Len(row) - 2) \in WhiteSpace

C28_NeverRaises ==
    (/\ probe.done
     /\ probe.fn \in {"parser", "layout"}
     /\ probe.input.parser = "parseUOBCreditCardStatement")
    => probe.result.ok

\* C25: generateTransactionHash gives two tuples of one date and one amount the same
\* fingerprint only if their descriptions, lower-cased and trimmed, are the same,
\* that is only if their normalized keys are the same
C25_FingerprintInjective ==
    (Done("generateTransactionHash") /\ probe.result[1] = probe.result[2])
    => HashKey(probe.input.date, probe.input.d1, probe.input.amount)
          = HashKey(probe.input.date, probe.input.d2, probe.input.amount)

\* a date of a statement period as a canonical date: the layout form of the UOB One
\* parser returns the period as printed
PeriodDate(d) == IF IsCanonicalDate(d) THEN d ELSE parseUOBDate(d)

\* a canonical date as the number YYYYMMDD, which orders dates as the calendar does
DateNumber(d) ==
    DigitsToNat(SubSeq(d, 1, 4)) * 10000 + DigitsToNat(SubSeq(d, 6, 7)) * 100
        + DigitsToNat(SubSeq(d, 9, 10))

\* C27: every transaction with a calendar date that a bank-statement parser emits,
\* from a text or from a layout, is dated within the period of its statement, from
\* periodStart to periodEnd, also when the period spans a year boundary
C27_DateWithinPeriod ==
    (/\ probe.done
     /\ probe.fn \in {"parser", "layout"}
     /\ probe.input.parser \in {"parseUOBOneStatement", "parseUOBLadyStatement"}
     /\ probe.result.ok
     /\ IsCanonicalDate(PeriodDate(probe.result.value.periodStart))
     /\ IsCanonicalDate(PeriodDate(probe.result.value.periodEnd)))
    => \A t \in DOMAIN probe.result.value.transactions :
          IsCanonicalDate(probe.result.value.transactions[t].date)
          => /\ DateNumber(PeriodDate(probe.result.value.periodStart))
                  <= DateNumber(probe.result.value.transactions[t].date)
             /\ DateNumber(probe.result.value.transactions[t].date)
                  <= DateNumber(PeriodDate(probe.result.value.periodEnd))

\* C30: after any sequence of confirmed imports and import deletions, also when the
\* transactions of an import could not be saved to Sheets, every transaction of the
\* ledger that carries an importId has an ImportRecord with that id in the imports
C30_ImportRecordOfLedger ==
    \A t \in DOMAIN transactions :
        \E r \in DOMAIN imports : imports[r].id = transactions[t].importId

=============================================================================
